---- MODULE Spec2Model ----
(***************************************************************************)
(* A model of the two Streamlit front ends of the repository:              *)
(*   src/app.py               the similarity-matrix recommender (NextWatch)*)
(*   src/movie_recommender.py the TMDb client with likes, search history   *)
(*                            and paginated browse modes                   *)
(* Python values are modelled as follows: None is the string NONE, a list  *)
(* is a sequence (Python index i is position i + 1), a dict is a record or *)
(* a function, session_state is a function whose DOMAIN is the set of keys *)
(* that are present.                                                       *)
(***************************************************************************)
EXTENDS Integers, Sequences, FiniteSets, TLC

NONE == "None"

Min(a, b) == IF a <= b THEN a ELSE b
Max(a, b) == IF a >= b THEN a ELSE b

\* Python's list[start:stop] (0-based, negative indices count from the end).
PyNorm(i, n) == IF i < 0 THEN Max(i + n, 0) ELSE Min(i, n)
PySlice(s, start, stop) ==
    LET lo == PyNorm(start, Len(s))
        hi == PyNorm(stop, Len(s))
    IN  IF lo >= hi THEN <<>> ELSE SubSeq(s, lo + 1, hi)

\* Python's sorted(pairs, key=lambda x: x[1], reverse=True) on a sequence of
\* <<item, key>> pairs: a stable sort by descending key (equal keys keep their
\* order, also under reverse=True).
RECURSIVE InsertByKeyDesc(_, _)
InsertByKeyDesc(sorted, x) ==
    IF sorted = <<>> THEN <<x>>
    ELSE IF Head(sorted)[2] >= x[2]
         THEN <<Head(sorted)>> \o InsertByKeyDesc(Tail(sorted), x)
         ELSE <<x>> \o sorted

RECURSIVE SortedByKeyAsc(_)
SortedByKeyAsc(s) ==
    IF s = <<>> THEN <<>>
    ELSE LET rest == SortedByKeyAsc(Tail(s))
             x == Head(s)
             less == SelectSeq(rest, LAMBDA y: y[2] < x[2])
             more == SelectSeq(rest, LAMBDA y: y[2] >= x[2])
         IN  less \o <<x>> \o more

RECURSIVE SortedByKeyDesc(_)
SortedByKeyDesc(s) ==
    IF s = <<>> THEN <<>>
    ELSE InsertByKeyDesc(SortedByKeyDesc(SubSeq(s, 1, Len(s) - 1)), s[Len(s)])

(***************************************************************************)
(* src/app.py                                                              *)
(***************************************************************************)

\* ---- bounds of the catalogues that are enumerated
MaxSmallCatalogue == 3
BigCatalogueSlack == 1
NumRatings == 3
SimLevels == 3
NumOmdbShifts == 1
MaxQueryTitle == 2
MaxNumRec == 2

\* ---- program constants
TOP_SIMILAR == 30
NUM_REC_MIN == 1
NUM_REC_MAX == 30
NUM_REC_DEFAULT == 5
TRENDING_SIZE == 10
REFRESH_STEP == 10

PLACEHOLDER == "https://via.placeholder.com/300x450?text=No+Image"
TRENDING_FALLBACK == "https://via.placeholder.com/300x450"
REAL_POSTER == "https://m.media-amazon.com/images/poster.jpg"

VARIABLES
    movies,               \* the catalogue: a sequence of [title, vote_average]
    vote_average_present, \* 'vote_average' in movies.columns
    similarity,           \* similarity[i][j], the precomputed matrix
    omdb,                 \* what the OMDB lookup answers for each title
    rec_in,               \* the arguments of the last recommend() call
    rec_out               \* what that call returned

app_data == <<movies, vote_average_present, similarity, omdb>>

\* OMDB answers: the lookup fails (exception, or Response /= "True"), or it
\* returns metadata whose "Poster" is absent, "N/A", empty or a URL.
OmdbAnswers == <<
    [found |-> FALSE, Poster |-> NONE],
    [found |-> TRUE, Poster |-> NONE],
    [found |-> TRUE, Poster |-> "N/A"],
    [found |-> TRUE, Poster |-> ""],
    [found |-> TRUE, Poster |-> REAL_POSTER] >>

CatalogueSizes ==
    (1 .. MaxSmallCatalogue) \cup ((TOP_SIMILAR + 1) .. (TOP_SIMILAR + 1 + BigCatalogueSlack))

\* A catalogue of n movies; with dup the last movie carries the first one's
\* title (the TMDB data set holds a few such pairs).
Catalogue(n, rateA, dup) ==
    [i \in 1 .. n |->
        [title |-> IF dup /\ i = n /\ n > 1 THEN 1 ELSE i,
         vote_average |-> (i * rateA) % NumRatings]]

\* A symmetric matrix whose diagonal is self: SimLevels (above every other
\* entry), SimLevels - 1 (tied with some) or 0 (exceeded by some).
SimilarityMatrix(n, self, simA, simB) ==
    [i \in 1 .. n |-> [j \in 1 .. n |->
        IF i = j THEN self ELSE (simA * i * j + simB * (i + j)) % SimLevels]]

OmdbFor(shift, n) ==
    [t \in 1 .. n |->
        OmdbAnswers[((t + shift) % Len(OmdbAnswers)) + 1]]

Titles == {movies[i].title : i \in 1 .. Len(movies)}

\* What fetch_movie_details returns instead of metadata: Python's None.
NoDetails == [found |-> FALSE, Poster |-> NONE]

\* fetch_movie_details(title): the metadata when the lookup succeeded with
\* Response == "True", None otherwise.
fetch_movie_details(title) ==
    IF omdb[title].found THEN omdb[title] ELSE NoDetails

\* movies[movies["title"] == movie_name].index[0], as a Python index
TitleIndex(movie_name) ==
    (CHOOSE i \in 1 .. Len(movies) :
        /\ movies[i].title = movie_name
        /\ \A j \in 1 .. (i - 1) : movies[j].title /= movie_name) - 1

\* m_data.get('vote_average', 0) of movies.iloc[i]
RatingAt(i) == IF vote_average_present THEN movies[i + 1].vote_average ELSE 0

\* line 175: the 30 entries after the first of the row sorted by similarity
MovieList(index) ==
    LET distances == similarity[index + 1]
        enumerated == [i \in 1 .. Len(movies) |-> <<i - 1, distances[i]>>]
    IN  PySlice(SortedByKeyDesc(enumerated), 1, TOP_SIMILAR + 1)

\* line 186: sorted(recommendations, key=rating, reverse=True)[:num_movies]
TopPicksAscending(recommendations, num_movies) ==
    PySlice(SortedByKeyAsc(recommendations), 0, num_movies)

TopPicks(recommendations, num_movies) ==
    PySlice(SortedByKeyDesc(recommendations), 0, num_movies)

\* lines 193-195: the poster recommend() returns for one pick
RecommendPoster(details) ==
    LET poster == IF details.found THEN details.Poster ELSE NONE
    IN  IF poster \in {NONE, "N/A", ""} THEN PLACEHOLDER ELSE poster

\* recommend(movie_name, num_movies); picks are the catalogue indices of the
\* returned movies (the m_data rows behind the returned titles).
recommend(movie_name, num_movies) ==
    LET index == TitleIndex(movie_name)
        movie_list == MovieList(index)
        recommendations ==
            [k \in 1 .. Len(movie_list) |->
                <<[title |-> movies[movie_list[k][1] + 1].title,
                   idx |-> movie_list[k][1]],
                  RatingAt(movie_list[k][1])>>]
        top_picks == TopPicks(recommendations, num_movies)
    IN  [names |-> [k \in 1 .. Len(top_picks) |-> top_picks[k][1].title],
         posters |-> [k \in 1 .. Len(top_picks) |->
                        RecommendPoster(fetch_movie_details(top_picks[k][1].title))],
         picks |-> [k \in 1 .. Len(top_picks) |-> top_picks[k][1].idx]]

\* The inputs that are tried: the first titles of the catalogue, and the
\* smallest counts and the largest one the number_input allows.
QueryTitles == {t \in Titles : t <= MaxQueryTitle}
NumRecChoices == (NUM_REC_MIN .. Min(MaxNumRec, NUM_REC_MAX)) \cup {NUM_REC_MAX}

NoCall == [movie_name |-> 0, num_movies |-> 0]
NoResult == [names |-> <<>>, posters |-> <<>>, picks |-> <<>>]

\* load_assets(): the catalogue and the matrix are read once and never change.
LoadAssets(sizes, selfs, rateAs, simAs, simBs) ==
    \E n \in sizes, rateA \in rateAs, dup \in BOOLEAN,
       self \in selfs, simA \in simAs, simB \in simBs,
       shift \in 0 .. (NumOmdbShifts - 1), present \in BOOLEAN :
        /\ movies = Catalogue(n, rateA, dup)
        /\ vote_average_present = present
        /\ similarity = SimilarityMatrix(n, self, simA, simB)
        /\ omdb = OmdbFor(shift, n)

\* ---- the script of app.py, one run per action

\* None as a title, and an absent 'movie' query parameter
NO_MOVIE == 0

Put(f, k, v) == [x \in (DOMAIN f) \cup {k} |-> IF x = k THEN v ELSE f[x]]

\* Streamlit forgets the value of a widget that a run did not render, a run cut
\* short by st.rerun() included.
Drop(f, k) == [x \in (DOMAIN f) \ {k} |-> f[x]]

\* Python's a % b: the result has the sign of b; b = 0 raises ZeroDivisionError
\* (the caller tests for it).
PyMod(a, b) == IF b > 0 THEN a % b ELSE 0 - ((0 - a) % (0 - b))

\* A page that does not read the 'movie' query parameter.
UrlParam_ignored(ss, query) == ss

\* lines 205-211: the 'movie' query parameter selects a title of the catalogue
UrlParam(ss, query) ==
    IF /\ query /= NO_MOVIE
       /\ query \in Titles
       /\ \/ "selected_movie_name" \notin DOMAIN ss
          \/ ss.selected_movie_name /= query
    THEN Put(Put(ss, "selected_movie_name", query), "movie_selectbox", query)
    ELSE ss

\* lines 213-217
SessionDefaults(ss) ==
    LET a == IF "trending_offset" \in DOMAIN ss THEN ss ELSE Put(ss, "trending_offset", 0)
    IN  IF "selected_movie_name" \in DOMAIN a THEN a ELSE Put(a, "selected_movie_name", NO_MOVIE)

\* lines 243-255: the keyed selectbox returns the widget's value when the
\* session holds one, and otherwise the option at default_index (None when the
\* selected name is no title of the catalogue).
Selectbox(ss) ==
    IF "movie_selectbox" \in DOMAIN ss THEN ss.movie_selectbox
    ELSE IF ss.selected_movie_name \in Titles THEN ss.selected_movie_name
    ELSE NO_MOVIE

\* A callback that leaves the selection in place.
go_back_keeping(ss) == ss

\* lines 223-225: go_back() (st.query_params.clear() is the caller's query)
go_back(ss) == Put(ss, "selected_movie_name", NO_MOVIE)

\* A page that does not copy the selectbox's value to the session.
SyncSelection_skipped(ss, selected_movie) == ss

\* lines 259-260: the session's selection follows the selectbox
SyncSelection(ss, selected_movie) ==
    IF selected_movie /= ss.selected_movie_name
    THEN Put(ss, "selected_movie_name", selected_movie)
    ELSE ss

\* lines 279-281: the poster of the detail view
DetailPoster(current_info) ==
    LET poster == current_info.Poster
    IN  IF poster \in {NONE, "N/A", ""} THEN PLACEHOLDER ELSE poster

\* lines 307-309: the poster of a recommendation card
GridPoster(poster_url) ==
    IF poster_url \in {NONE, "N/A", ""} THEN PLACEHOLDER ELSE poster_url

\* lines 354-359: the poster of a trending card
TrendingPoster(details) ==
    LET poster_url == IF details.found THEN details.Poster ELSE TRENDING_FALLBACK
    IN  IF poster_url \in {NONE, "N/A", ""} THEN PLACEHOLDER ELSE poster_url

\* The lookup gave no usable poster: it failed, or "Poster" is absent, "N/A"
\* or empty.
PosterMissing(details) == ~details.found \/ details.Poster \in {NONE, "N/A", ""}

Image(path, title, url) ==
    [path |-> path, title |-> title,
     missing |-> PosterMissing(fetch_movie_details(title)), url |-> url]

\* lines 335-343: sorted_movies (by rating when the column exists), as titles.
\* Equal ratings are kept in catalogue order.
SortedMovies ==
    IF vote_average_present
    THEN LET ranked == SortedByKeyDesc(
                 [i \in 1 .. Len(movies) |-> <<movies[i].title, movies[i].vote_average>>])
         IN  [i \in 1 .. Len(ranked) |-> ranked[i][1]]
    ELSE [i \in 1 .. Len(movies) |-> movies[i].title]

\* lines 338/342, the modulus the window start is taken by
TrendingModulus == Len(movies) - TRENDING_SIZE

\* lines 338-345 and 347-369: the trending view
TrendingView(ss) ==
    IF TrendingModulus = 0
    THEN [kind |-> "trending", failed |-> TRUE, start_idx |-> 0, window |-> <<>>,
          images |-> <<>>, names |-> <<>>, back_shown |-> FALSE]
    ELSE LET start_idx == PyMod(ss.trending_offset, TrendingModulus)
             trending_titles == PySlice(SortedMovies, start_idx, start_idx + TRENDING_SIZE)
         IN  [kind |-> "trending", failed |-> FALSE, start_idx |-> start_idx,
              window |-> trending_titles,
              images |-> [k \in 1 .. Len(trending_titles) |->
                            Image("trending", trending_titles[k],
                                  TrendingPoster(fetch_movie_details(trending_titles[k])))],
              names |-> <<>>, back_shown |-> FALSE]

\* lines 269-320: the detail view and the recommendation grid
DetailView(selected_movie, result, back_shown) ==
    LET current_info == fetch_movie_details(selected_movie)
        detail == IF current_info.found
                  THEN <<Image("detail", selected_movie, DetailPoster(current_info))>>
                  ELSE <<>>
        grid == [k \in 1 .. Len(result.names) |->
                    Image("grid", result.names[k], GridPoster(result.posters[k]))]
    IN  [kind |-> "detail", failed |-> FALSE, start_idx |-> 0, window |-> <<>>,
         images |-> detail \o grid, names |-> result.names, back_shown |-> back_shown]

\* What the page shows while a run was cut short by st.rerun().
RerunView ==
    [kind |-> "rerun", failed |-> FALSE, start_idx |-> 0, window |-> <<>>,
     images |-> <<>>, names |-> <<>>, back_shown |-> FALSE]

VARIABLES
    app_session,   \* st.session_state of app.py
    query_movie,   \* st.query_params["movie"], NO_MOVIE when absent
    num_rec,       \* the value of the number_input
    app_view,      \* what the last run rendered
    app_rerun,     \* st.rerun() was called: the script runs again at once
    app_in         \* what the last run started from, and the event that started it

app_ui == <<app_session, query_movie, num_rec, app_view, app_rerun, app_in>>
app_rec == <<rec_in, rec_out>>

\* One run of the script. click is "back", "refresh" or "none", num the value
\* of the number_input; the selectbox's value is the session's.
AppRun(ss0, query0, click, num) ==
    LET ss1 == SessionDefaults(UrlParam(ss0, query0))
        back_shown == ss1.selected_movie_name /= NO_MOVIE
    IN  IF back_shown /\ click = "back"
        THEN \* go_back(), st.rerun()
             \* (the selectbox is not reached: its value is forgotten)
             [session |-> Drop(go_back(ss1), "movie_selectbox"),
              query |-> NO_MOVIE, view |-> RerunView, rerun |-> TRUE,
              called |-> FALSE, selected |-> NO_MOVIE, result |-> NoResult]
        ELSE LET selected_movie == Selectbox(ss1)
                 ss2 == Put(ss1, "movie_selectbox", selected_movie)
                 ss3 == SyncSelection(ss2, selected_movie)
             IN  IF selected_movie /= NO_MOVIE
                 THEN LET result == recommend(selected_movie, num)
                      IN  [session |-> ss3, query |-> selected_movie,
                           view |-> DetailView(selected_movie, result, back_shown),
                           rerun |-> FALSE, called |-> TRUE,
                           selected |-> selected_movie, result |-> result]
                 ELSE IF click = "refresh"
                 THEN [session |-> Put(ss3, "trending_offset",
                                       ss3.trending_offset + REFRESH_STEP),
                       query |-> NO_MOVIE, view |-> RerunView, rerun |-> TRUE,
                       called |-> FALSE, selected |-> NO_MOVIE, result |-> NoResult]
                 ELSE [session |-> ss3, query |-> NO_MOVIE,
                       view |-> [TrendingView(ss3) EXCEPT !.back_shown = back_shown],
                       rerun |-> FALSE, called |-> FALSE, selected |-> NO_MOVIE,
                       result |-> NoResult]

Commit(r, event, ss0, query0) ==
    /\ app_in' = [event |-> event, session |-> SessionDefaults(ss0), query |-> query0]
    /\ app_session' = r.session
    /\ query_movie' = r.query
    /\ app_view' = r.view
    /\ app_rerun' = r.rerun
    /\ IF r.called
       THEN /\ rec_in' = [movie_name |-> r.selected, num_movies |-> num_rec']
            /\ rec_out' = r.result
       ELSE /\ rec_in' = NoCall
            /\ rec_out' = NoResult
    /\ UNCHANGED app_data

\* ---- bounds of the sessions of app.py
AppCatalogueSpread == 3
MaxRefresh == 2
MaxCard == 2

\* Catalogues smaller than, as large as and larger than the trending window.
AppCatalogueSizes ==
    (TRENDING_SIZE - AppCatalogueSpread) .. (TRENDING_SIZE + AppCatalogueSpread)

EmptySession == [k \in {} |-> 0]
NoView ==
    [kind |-> "none", failed |-> FALSE, start_idx |-> 0, window |-> <<>>,
     images |-> <<>>, names |-> <<>>, back_shown |-> FALSE]

\* A browser opens the page, with or without a 'movie' parameter (which may
\* name no title of the catalogue): a new session, and the first run.
OpenPage ==
    \E query \in {NO_MOVIE} \cup QueryTitles \cup {Len(movies) + 1} :
        /\ ~app_rerun
        /\ num_rec' = NUM_REC_DEFAULT
        /\ Commit(AppRun(EmptySession, query, "none", num_rec'),
                  "open", EmptySession, query)

\* A click on a card of either grid follows its link ?movie=<title>.
FollowCard ==
    \E k \in 1 .. Min(MaxCard, Len(app_view.images)) :
        /\ ~app_rerun
        /\ app_view.images[k].path \in {"grid", "trending"}
        /\ num_rec' = NUM_REC_DEFAULT
        /\ Commit(AppRun(EmptySession, app_view.images[k].title, "none", num_rec'),
                  "card", EmptySession, app_view.images[k].title)

\* The user picks a title in the selectbox, or clears it.
PickMovie ==
    \E t \in QueryTitles \cup {NO_MOVIE} :
        /\ ~app_rerun
        /\ app_view.kind \in {"detail", "trending"}
        /\ t /= Selectbox(app_session)
        /\ UNCHANGED num_rec
        /\ Commit(AppRun(Put(app_session, "movie_selectbox", t), query_movie, "none", num_rec'),
                  "pick", app_session, query_movie)

\* The user changes the number of recommendations.
SetNumRec ==
    \E k \in {NUM_REC_MIN, NUM_REC_DEFAULT, NUM_REC_MAX} :
        /\ ~app_rerun
        /\ app_view.kind \in {"detail", "trending"}
        /\ k /= num_rec
        /\ num_rec' = k
        /\ Commit(AppRun(app_session, query_movie, "none", num_rec'),
                  "number", app_session, query_movie)

ClickBack ==
    /\ ~app_rerun
    /\ app_view.back_shown
    /\ UNCHANGED num_rec
    /\ Commit(AppRun(app_session, query_movie, "back", num_rec'),
              "back", app_session, query_movie)

ClickRefresh ==
    /\ ~app_rerun
    /\ app_view.kind = "trending"
    /\ app_session.trending_offset < MaxRefresh * REFRESH_STEP
    /\ UNCHANGED num_rec
    /\ Commit(AppRun(app_session, query_movie, "refresh", num_rec'),
              "refresh", app_session, query_movie)

\* The run that st.rerun() starts.
AppRerun ==
    /\ app_rerun
    /\ UNCHANGED num_rec
    /\ Commit(AppRun(app_session, query_movie, "none", num_rec'),
              "rerun", app_session, query_movie)

InitAppUi ==
    /\ app_session = EmptySession
    /\ query_movie = NO_MOVIE
    /\ num_rec = NUM_REC_DEFAULT
    /\ app_view = NoView
    /\ app_rerun = FALSE
    /\ app_in = [event |-> "none", session |-> SessionDefaults(EmptySession),
                 query |-> NO_MOVIE]

\* One call of recommend() with a title of the catalogue and a count the
\* number_input allows.
CallRecommend ==
    \E movie_name \in QueryTitles, num_movies \in NumRecChoices :
        /\ rec_in' = [movie_name |-> movie_name, num_movies |-> num_movies]
        /\ rec_out' = recommend(movie_name, num_movies)
        /\ UNCHANGED app_data
        /\ UNCHANGED app_ui

(***************************************************************************)
(* src/movie_recommender.py: class MovieRecommender                        *)
(***************************************************************************)

\* ---- bounds
NumMovies == 2        \* movie ids 1 .. NumMovies
MaxTime == 1          \* datetime.now() takes the values 0 .. MaxTime
LikeModeIndex == 1    \* the sidebar mode, by its place in Modes, that callers pass to like_movie
MaxDiskFailures == 1  \* writes of a file that raise
NumQueries == 2       \* non-empty search queries 1 .. NumQueries
HistoryHeadroom == 1  \* stored histories as short as HISTORY_CAP - HistoryHeadroom
MaxAdds == 2          \* calls of add_to_search_history in one run of the model

\* ---- program constants
HISTORY_CAP == 50

MovieIds == 1 .. NumMovies

\* The eight sidebar modes, in the order of the radio, and the mode the
\* recommendations panel passes to its cards.
Modes == << "Search Movies", "Browse Trending", "Latest Movies", "Browse by Genre",
            "Browse by Language", "Browse by Year", "Dubbed Movies", "Advanced Filters" >>
RECOMMENDATIONS_MODE == "Recommendations"

VARIABLES
    liked_movies,          \* self.liked_movies: movie id -> record
    liked_movies_file,     \* liked_movies.pkl
    user_search_history,   \* self.user_search_history: a list of entries
    search_history_file,   \* search_history.pkl
    now,                   \* datetime.now()
    last_op,               \* the last method called, with its arguments
    pre,                   \* the object and the files before that call
    history_adds,          \* calls of add_to_search_history so far
    disk_failures,         \* writes that raised so far
    cache_file,            \* movie_cache.pkl
    movie_cache            \* self.movie_data: the cached movie data

recommender_vars == <<liked_movies, liked_movies_file, user_search_history,
                      search_history_file, now, last_op, pre, history_adds,
                      disk_failures, cache_file, movie_cache>>

NoLikes == [id \in {} |-> 0]
MissingFile(empty) == [state |-> "missing", data |-> empty]
StoredFile(data) == [state |-> "ok", data |-> data]

\* A file that exists and cannot be opened, or whose bytes do not unpickle;
\* data is what the bytes were meant to hold.
UnreadableFile(data) == [state |-> "unreadable", data |-> data]
CorruptFile(data) == [state |-> "corrupt", data |-> data]

\* load_liked_movies / load_search_history / load_cache: the pickled object,
\* or the empty value when the file is missing, cannot be opened or cannot be
\* unpickled.
load_liked_movies_trusting(file) == file.data

load_liked_movies(file) == IF file.state = "ok" THEN file.data ELSE NoLikes
load_cache(file) == IF file.state = "ok" THEN file.data ELSE NoLikes
load_search_history(file) == IF file.state = "ok" THEN file.data ELSE <<>>

\* save_liked_movies / save_search_history: the object replaces the file's
\* content; an exception is swallowed and leaves the file as it was.
save_liked_movies_merging(file, liked, disk_ok) ==
    IF disk_ok
    THEN StoredFile([id \in (DOMAIN load_liked_movies(file)) \cup (DOMAIN liked) |->
                        IF id \in DOMAIN liked THEN liked[id]
                        ELSE load_liked_movies(file)[id]])
    ELSE file

save_liked_movies(file, liked, disk_ok) == IF disk_ok THEN StoredFile(liked) ELSE file
save_search_history(file, history, disk_ok) == IF disk_ok THEN StoredFile(history) ELSE file

\* like_movie: self.liked_movies[movie_id] = {...}; mode None becomes 'Unknown'
like_movie_forgetting_others(liked, movie_id, movie_data, mode, t) ==
    [id \in {movie_id} |->
        [movie_data |-> movie_data, timestamp |-> t,
         mode |-> IF mode \in {NONE, ""} THEN "Unknown" ELSE mode]]

like_movie(liked, movie_id, movie_data, mode, t) ==
    [id \in (DOMAIN liked) \cup {movie_id} |->
        IF id = movie_id
        THEN [movie_data |-> movie_data, timestamp |-> t,
              mode |-> IF mode \in {NONE, ""} THEN "Unknown" ELSE mode]
        ELSE liked[id]]

\* unlike_movie: the mapping afterwards, and whether save_liked_movies is called
unlike_movie_always_saving(liked, movie_id) ==
    [liked_movies |-> [id \in (DOMAIN liked) \ {movie_id} |-> liked[id]],
     save |-> TRUE]

unlike_movie(liked, movie_id) ==
    IF movie_id \in DOMAIN liked
    THEN [liked_movies |-> [id \in (DOMAIN liked) \ {movie_id} |-> liked[id]],
          save |-> TRUE]
    ELSE [liked_movies |-> liked, save |-> FALSE]

is_movie_liked(liked, movie_id) == movie_id \in DOMAIN liked

\* An optional list argument: None, or a list.
NoneArg == [given |-> FALSE, value |-> <<>>]
ListArg(l) == [given |-> TRUE, value |-> l]
OrEmpty(arg) == IF arg.given /\ arg.value /= <<>> THEN arg.value ELSE <<>>

SearchEntry(query, movie_ids, languages, t) ==
    [query |-> query, movie_ids |-> OrEmpty(movie_ids),
     languages |-> OrEmpty(languages), timestamp |-> t]

\* add_to_search_history: append, then keep the last 50
add_to_search_history_keeping_first(history, query, movie_ids, languages, t) ==
    LET appended == Append(history, SearchEntry(query, movie_ids, languages, t))
    IN  IF Len(appended) > HISTORY_CAP
        THEN PySlice(appended, 0, HISTORY_CAP)
        ELSE appended

add_to_search_history(history, query, movie_ids, languages, t) ==
    LET appended == Append(history, SearchEntry(query, movie_ids, languages, t))
    IN  IF Len(appended) > HISTORY_CAP
        THEN PySlice(appended, 0 - HISTORY_CAP, Len(appended))
        ELSE appended

\* A movie as the API returns it.
Movie(id) == [id |-> id, original_language |-> IF id % 2 = 1 THEN "en" ELSE NONE]

NoOp == [op |-> "none", movie_id |-> 0, saved |-> FALSE,
         entry |-> SearchEntry(0, NoneArg, NoneArg, 0)]
Snapshot == [liked_movies |-> liked_movies, liked_movies_file |-> liked_movies_file,
             user_search_history |-> user_search_history]

\* Whether this write of a file succeeds: a write may raise (the exception is
\* swallowed) at most MaxDiskFailures times.
DiskWrite(disk_ok) ==
    /\ disk_ok \/ disk_failures < MaxDiskFailures
    /\ disk_failures' = IF disk_ok THEN disk_failures ELSE disk_failures + 1

\* A history file written by earlier runs: n entries, the oldest first.
StoredHistory(n) ==
    [i \in 1 .. n |-> SearchEntry(1 + (i % NumQueries), ListArg(<<1 + (i % NumMovies)>>),
                                  NoneArg, i - n)]

\* MovieRecommender.__init__: the object is loaded from the files.
Construct ==
    /\ liked_movies' = load_liked_movies(liked_movies_file)
    /\ user_search_history' = load_search_history(search_history_file)
    /\ last_op' = [NoOp EXCEPT !.op = "__init__"]
    /\ pre' = Snapshot
    /\ movie_cache' = load_cache(cache_file)
    /\ UNCHANGED <<liked_movies_file, search_history_file, now, history_adds,
                   disk_failures, cache_file>>

Tick ==
    /\ now < MaxTime
    /\ now' = now + 1
    /\ UNCHANGED <<liked_movies, liked_movies_file, user_search_history,
                   search_history_file, last_op, pre, history_adds, disk_failures,
                   cache_file, movie_cache>>

LikeMovie ==
    \E movie_id \in MovieIds,
       mode \in {Modes[LikeModeIndex], NONE}, disk_ok \in BOOLEAN :
        /\ DiskWrite(disk_ok)
        /\ liked_movies' = like_movie(liked_movies, movie_id, Movie(movie_id), mode, now)
        /\ liked_movies_file' = save_liked_movies(liked_movies_file, liked_movies', disk_ok)
        /\ last_op' = [NoOp EXCEPT !.op = "like_movie", !.movie_id = movie_id, !.saved = TRUE]
        /\ pre' = Snapshot
        /\ UNCHANGED <<user_search_history, search_history_file, now, history_adds,
                       cache_file, movie_cache>>

UnlikeMovie ==
    \E movie_id \in MovieIds, disk_ok \in BOOLEAN :
        LET r == unlike_movie(liked_movies, movie_id)
        IN  /\ IF r.save THEN DiskWrite(disk_ok)
                         ELSE disk_ok /\ UNCHANGED disk_failures
            /\ liked_movies' = r.liked_movies
            /\ liked_movies_file' =
                  IF r.save
                  THEN save_liked_movies(liked_movies_file, r.liked_movies, disk_ok)
                  ELSE liked_movies_file
            /\ last_op' = [NoOp EXCEPT !.op = "unlike_movie", !.movie_id = movie_id,
                                       !.saved = r.save]
            /\ pre' = Snapshot
            /\ UNCHANGED <<user_search_history, search_history_file, now, history_adds,
                       cache_file, movie_cache>>

AddToSearchHistory ==
    \E query \in 1 .. NumQueries, movie_ids \in {NoneArg, ListArg(<<1>>)},
       languages \in {NoneArg, ListArg(<<"en">>)}, disk_ok \in BOOLEAN :
        /\ history_adds < MaxAdds
        /\ history_adds' = history_adds + 1
        /\ DiskWrite(disk_ok)
        /\ user_search_history' =
              add_to_search_history(user_search_history, query, movie_ids, languages, now)
        /\ search_history_file' =
              save_search_history(search_history_file, user_search_history', disk_ok)
        /\ last_op' = [NoOp EXCEPT !.op = "add_to_search_history", !.saved = TRUE,
                                   !.entry = SearchEntry(query, movie_ids, languages, now)]
        /\ pre' = Snapshot
        /\ UNCHANGED <<liked_movies, liked_movies_file, now, cache_file, movie_cache>>

\* A fresh installation: no files.
InitRecommenderFresh ==
    /\ liked_movies_file = MissingFile(NoLikes)
    /\ liked_movies = NoLikes
    /\ search_history_file = MissingFile(<<>>)
    /\ user_search_history = <<>>
    /\ now = 0
    /\ last_op = NoOp
    /\ history_adds = 0
    /\ disk_failures = 0
    /\ cache_file = MissingFile(NoLikes)
    /\ movie_cache = NoLikes
    /\ pre = Snapshot

\* An object constructed over the history file earlier runs left.
InitRecommenderStored ==
    /\ liked_movies_file = MissingFile(NoLikes)
    /\ liked_movies = NoLikes
    /\ \E n \in {0} \cup ((HISTORY_CAP - HistoryHeadroom) .. HISTORY_CAP) :
          /\ search_history_file = IF n = 0 THEN MissingFile(<<>>) ELSE StoredFile(StoredHistory(n))
          /\ user_search_history = load_search_history(search_history_file)
    /\ now = 0
    /\ last_op = NoOp
    /\ history_adds = 0
    /\ disk_failures = 0
    /\ cache_file = MissingFile(NoLikes)
    /\ movie_cache = NoLikes
    /\ pre = Snapshot

(***************************************************************************)
(* main() of src/movie_recommender.py: one run of the script per action.   *)
(* A run reads the widgets, handles at most one button click and either    *)
(* ends or is cut short by st.rerun(), which starts the next run.          *)
(***************************************************************************)

\* ---- bounds of the sessions of movie_recommender.py
MaxEvents == 3        \* things the user does in one session
MaxPage == 3          \* Next is not clicked beyond this page
NumFilters == 2       \* selections of a browse mode's filter, 0 the default
BrowsePages == 2      \* pages of a browse list that hold movies
MaxRecs == 11         \* movies get_content_based_recommendations returns
NumCards == 2         \* movies on a page of a list
NumRecCards == 1      \* recommendations whose card the user clicks on

\* ---- program constants
ITEMS_PER_PAGE == 10
RECS_TOP_N == 50
EMPTY_QUERY == 0      \* the text input's default, ""

SEARCH_MODE == Modes[1]
GENRE_MODE == Modes[4]
LANGUAGE_MODE == Modes[5]
YEAR_MODE == Modes[6]
ADVANCED_MODE == Modes[8]
ModeSet == {Modes[k] : k \in 1 .. Len(Modes)}

VARIABLES
    session_state,     \* st.session_state
    mode,              \* the sidebar radio
    search_query,      \* the text input of the Search view
    filter_choice,     \* the selection of the browse mode's filter widgets
    buttons,           \* keys of the buttons the last run rendered
    clicked,           \* the button whose click started the last run
    fetched,           \* what the last run's list fetch returned
    rerun_pending,     \* st.rerun() was called: the script runs again
    events,            \* things the user did so far
    run_in,            \* st.session_state as the last run found it
    panel_run          \* the panel in the last run: "none", "kept" or "generated"

main_vars == <<session_state, mode, search_query, filter_choice, buttons, clicked,
               fetched, rerun_pending, events, run_in, panel_run>>

\* The session key that remembers the browse mode's filter selection.
FilterKey(m) ==
    CASE m = Modes[2] -> "previous_trending_filter"
      [] m = Modes[3] -> "previous_latest_lang"
      [] m = Modes[4] -> "previous_genre"
      [] m = Modes[5] -> "previous_language"
      [] m = Modes[6] -> "previous_year"
      [] m = Modes[7] -> "previous_dubbed_lang"
      [] OTHER -> "previous_filter"

\* The stem of the keys of the browse mode's Previous / Next buttons.
PagerStem(m) ==
    CASE m = Modes[2] -> "trending"
      [] m = Modes[3] -> "latest"
      [] m = Modes[4] -> "genre"
      [] m = Modes[5] -> "language"
      [] m = Modes[6] -> "year"
      [] m = Modes[7] -> "dubbed"
      [] OTHER -> "advanced"

\* current_mode as the browse mode passes it to display_movie_card: the
\* Language and Year views pass none.
CardMode(m) == IF m \in {LANGUAGE_MODE, YEAR_MODE} THEN NONE ELSE m

\* The movies of a non-empty page of a list, and the list of recommendations.
PageMovies == [k \in 1 .. NumCards |-> Movie(k)]
RecList == [k \in 1 .. Min(MaxRecs, RECS_TOP_N) |-> Movie(NumCards + k)]

\* A query's number of result pages.
TotalPages(query) == query

\* search_movies: (results, total_pages), or ([], 1) when the request fails
search_movies(query, page, api_ok) ==
    IF api_ok
    THEN [movies |-> IF page <= TotalPages(query) THEN PageMovies ELSE <<>>,
          total_pages |-> TotalPages(query)]
    ELSE [movies |-> <<>>, total_pages |-> 1]

\* fetch_trending_movies, get_latest_movies, get_movie_by_genre, ...: the
\* page's movies, or [] beyond the last page and when the request fails
fetch_page(page, api_ok) ==
    IF api_ok /\ page <= BrowsePages THEN PageMovies ELSE <<>>

\* ---- the state of one run of the script
NoFetch == [kind |-> "none", page |-> 0, total_pages |-> 0, count |-> 0]

Frame ==
    [ss |-> session_state,
     liked_movies |-> load_liked_movies(liked_movies_file),
     liked_movies_file |-> liked_movies_file,
     user_search_history |-> load_search_history(search_history_file),
     search_history_file |-> search_history_file,
     shown |-> {}, stop |-> FALSE, saved |-> FALSE, added |-> FALSE, requested |-> FALSE,
     op |-> [NoOp EXCEPT !.op = "__init__"], fetched |-> NoFetch, panel |-> "none"]

Set(f, key, value) == [f EXCEPT !.ss = Put(@, key, value)]
Show(f, key) == [f EXCEPT !.shown = @ \cup {key}]
Rerun(f) == [f EXCEPT !.stop = TRUE]
Get(ss, key, default) == IF key \in DOMAIN ss THEN ss[key] ELSE default

\* `if st.button("Previous", ...) and page > 1`
PreviousAlways(page) == TRUE
PreviousAllowed(page) == page > 1

\* `if st.button("Next", ...) and page < total_pages` where the script bounds
\* Next (bounded), `if st.button("Next", ...)` where it does not
NextAlways(bounded, page, last_page) == TRUE
NextAllowed(bounded, page, last_page) == bounded => page < last_page

\* A Previous / Next pair over the session key page_key; Next is bounded by
\* last_page where the script bounds it (bounded), and not at all otherwise.
Pager(f, in, prev_key, next_key, page_key, bounded, last_page) ==
    IF f.stop THEN f
    ELSE LET page == f.ss[page_key]
             scroll(g) == IF page_key = "current_page"
                          THEN Set(g, "scroll_to_top", TRUE) ELSE g
         IN  IF in.click = prev_key /\ PreviousAllowed(page)
             THEN Rerun(scroll(Set(Show(f, prev_key), page_key, page - 1)))
             ELSE IF in.click = next_key /\ NextAllowed(bounded, page, last_page)
             THEN Rerun(scroll(Set(Show(Show(f, prev_key), next_key), page_key, page + 1)))
             ELSE Show(Show(f, prev_key), next_key)

\* display_movie_card: the click on Unlike, `recommender.unlike_movie(movie_id)`
UnlikeClicked(f, in, id, unliked, unlike_key) ==
    Rerun([f EXCEPT
             !.shown = @ \cup {unlike_key},
             !.liked_movies = unliked.liked_movies,
             !.liked_movies_file =
                 IF unliked.save
                 THEN save_liked_movies(@, unliked.liked_movies, in.disk_ok)
                 ELSE @,
             !.saved = @ \/ unliked.save,
             !.op = [NoOp EXCEPT !.op = "unlike_movie", !.movie_id = id,
                                 !.saved = unliked.save]])

\* display_movie_card: the click on Like, `recommender.like_movie(...)`
LikeClicked(f, in, id, liked, like_key) ==
    Rerun([f EXCEPT
             !.shown = @ \cup {like_key},
             !.liked_movies = liked,
             !.liked_movies_file = save_liked_movies(@, liked, in.disk_ok),
             !.saved = TRUE,
             !.op = [NoOp EXCEPT !.op = "like_movie", !.movie_id = id,
                                 !.saved = TRUE]])

\* display_movie_card: the Unlike button of a liked movie, the Like button of
\* any other
LikeButton(f, in, movie, current_mode) ==
    LET id == movie.id
        unlike_key == "unlike_" \o ToString(id)
        like_key == "like_" \o ToString(id)
    IN  IF is_movie_liked(f.liked_movies, id)
        THEN IF in.click = unlike_key
             THEN UnlikeClicked(f, in, id, unlike_movie(f.liked_movies, id), unlike_key)
             ELSE Show(f, unlike_key)
        ELSE IF in.click = like_key
             THEN LikeClicked(f, in, id,
                              like_movie(f.liked_movies, id, movie, current_mode, now),
                              like_key)
             ELSE Show(f, like_key)

\* display_movie_card: the Recommend button under the details
RecommendButton(f, in, id, show_details) ==
    LET rec_key == "rec_" \o ToString(id)
    IN  IF f.stop \/ ~show_details THEN f
        ELSE IF in.click = rec_key
        THEN Rerun(Set(Set(Show(f, rec_key), "selected_movie_id", id),
                       "show_recommendations", TRUE))
        ELSE Show(f, rec_key)

\* display_movie_card: the Like or Unlike button, then the Recommend button
display_movie_card(f, in, movie, show_details, show_like_button, current_mode) ==
    IF f.stop THEN f
    ELSE RecommendButton(IF show_like_button
                         THEN LikeButton(f, in, movie, current_mode)
                         ELSE f,
                         in, movie.id, show_details)

\* `for movie in movies: display_movie_card(movie, ...)`
RECURSIVE Cards(_, _, _, _, _, _)
Cards(f, in, movie_list, show_details, show_like_button, current_mode) ==
    IF movie_list = <<>> THEN f
    ELSE Cards(display_movie_card(f, in, Head(movie_list), show_details,
                                  show_like_button, current_mode),
               in, Tail(movie_list), show_details, show_like_button, current_mode)

\* `recommender.user_search_history = []` of the Clear History button
clear_history_keeping_oldest(history) ==
    IF history = <<>> THEN <<>> ELSE <<history[1]>>

clear_history(history) == <<>>

\* The sidebar's View All Liked button, shown when a movie is liked.
ViewAllLiked(f, in) ==
    IF DOMAIN f.liked_movies = {} THEN f
    ELSE IF in.click = "View All Liked"
    THEN Rerun(Set(Show(f, "View All Liked"), "show_liked_movies", TRUE))
    ELSE Show(f, "View All Liked")

\* The sidebar's Clear History button, shown when the history is not empty.
ClearHistory(f, in) ==
    IF f.stop \/ f.user_search_history = <<>> THEN f
    ELSE IF in.click = "Clear History"
    THEN Rerun([f EXCEPT
           !.shown = @ \cup {"Clear History"},
           !.user_search_history = clear_history(@),
           !.search_history_file =
               save_search_history(@, clear_history(f.user_search_history), in.disk_ok),
           !.saved = TRUE,
           !.op = [NoOp EXCEPT !.op = "clear_history", !.saved = TRUE]])
    ELSE Show(f, "Clear History")

\* The sidebar of the Search mode: View All Liked and Clear History.
Sidebar(f, in) ==
    IF in.mode /= SEARCH_MODE THEN f ELSE ClearHistory(ViewAllLiked(f, in), in)

\* `if key not in st.session_state: st.session_state[key] = value`
Default(f, key, value) == IF key \in DOMAIN f.ss THEN f ELSE Set(f, key, value)

\* Reset the page when the mode changes.
ModeChanged(f, in) ==
    IF f.ss["previous_mode"] /= in.mode
    THEN Set(Set(f, "current_page", 1), "previous_mode", in.mode)
    ELSE f

\* Initialize session state; reset the page when the mode changes.
SessionInit(f, in) ==
    ModeChanged(Default(Default(Default(Default(f,
                    "selected_movie_id", NO_MOVIE),
                    "show_recommendations", FALSE),
                    "current_page", 1),
                    "previous_mode", in.mode),
                in)

\* The movies get_recommendations_from_history puts on the Search view without
\* a query: a list chosen by the service, or [] when its requests fail.
home_recommendations(api_ok) == IF api_ok THEN PageMovies ELSE <<>>

\* The liked movies as the liked-movies view lists them.
RECURSIVE LikedList(_, _)
LikedList(liked, id) ==
    IF id > NumCards + MaxRecs THEN <<>>
    ELSE (IF id \in DOMAIN liked THEN <<liked[id].movie_data>> ELSE <<>>)
         \o LikedList(liked, id + 1)

\* A request for a list was made, and what it returned.
Fetched(f, kind, page, total_pages, count) ==
    [f EXCEPT !.requested = TRUE,
              !.fetched = [kind |-> kind, page |-> page, total_pages |-> total_pages,
                           count |-> count]]

\* A view that records the search on every page.
FirstPage_any(page) == TRUE

\* A view that records no search.
FirstPage_never(page) == FALSE

\* `if st.session_state['search_page'] == 1:`
FirstPage(page) == page = 1

\* `if st.session_state['search_page'] == 1: recommender.add_to_search_history(...)`
RecordSearch(f, in, page, found_movies) ==
    LET movie_ids == [k \in 1 .. Len(found_movies) |-> found_movies[k].id]
        languages == SelectSeq([k \in 1 .. Len(found_movies) |->
                                   found_movies[k].original_language],
                               LAMBDA l : l /= NONE)
        added == add_to_search_history(f.user_search_history, in.search_query,
                                       ListArg(movie_ids), ListArg(languages), now)
    IN  IF FirstPage(page)
        THEN [f EXCEPT
                !.user_search_history = added,
                !.search_history_file = save_search_history(@, added, in.disk_ok),
                !.saved = TRUE, !.added = TRUE,
                !.op = [NoOp EXCEPT
                          !.op = "add_to_search_history", !.saved = TRUE,
                          !.entry = SearchEntry(in.search_query, ListArg(movie_ids),
                                                ListArg(languages), now)]]
        ELSE f

\* The Search view's results: the history, the cards, the bottom pager; or
\* "No movies found".
SearchList(f, in, page, found) ==
    IF found.movies = <<>> THEN Fetched(f, "search", page, found.total_pages, 0)
    ELSE Pager(Cards(RecordSearch(Fetched(f, "search", page, found.total_pages,
                                          Len(found.movies)),
                                  in, page, found.movies),
                     in, found.movies, TRUE, TRUE, in.mode),
               in, "prev_search_bottom", "next_search_bottom", "search_page",
               TRUE, found.total_pages)

\* `movies, total_pages = search_movies(search_query, page=search_page)`
SearchFetch(f, in) ==
    IF f.stop THEN f
    ELSE SearchList(f, in, f.ss["search_page"],
                    search_movies(in.search_query, f.ss["search_page"], in.api_ok))

\* The Search view with a query: pager, results, history, cards, pager.
SearchResults(f, in) ==
    SearchFetch(Pager(f, in, "prev_search_top", "next_search_top", "search_page",
                      FALSE, 0),
                in)

\* The Search view without a query: the liked movies, or the home list.
SearchHome(f, in) ==
    IF Get(f.ss, "show_liked_movies", FALSE)
    THEN IF in.click = "Back"
         THEN Rerun(Set(Show(f, "Back"), "show_liked_movies", FALSE))
         ELSE IF DOMAIN f.liked_movies = {} THEN Show(f, "Back")
         ELSE Cards(Show(f, "Back"), in, LikedList(f.liked_movies, 1), TRUE, TRUE, in.mode)
    ELSE Cards(Fetched(f, "home", 1, 1, Len(home_recommendations(in.api_ok))),
               in, home_recommendations(in.api_ok), TRUE, TRUE, in.mode)

\* A view that records the new query and keeps the page.
QueryChanged_keeping_page(f, in) == Set(f, "previous_search_query", in.search_query)

\* Reset page if search query changes.
QueryChanged(f, in) ==
    IF in.search_query /= f.ss["previous_search_query"]
    THEN Set(Set(f, "search_page", 1), "previous_search_query", in.search_query)
    ELSE f

\* The Search view after the query is read.
SearchBody(f, in) ==
    IF in.search_query /= EMPTY_QUERY
    THEN SearchResults(Set(f, "search_active", TRUE), in)
    ELSE SearchHome(Set(Set(f, "search_active", FALSE), "search_page", 1), in)

SearchView(f, in) ==
    SearchBody(QueryChanged(Default(Default(f, "search_page", 1),
                                    "previous_search_query", EMPTY_QUERY),
                            in),
               in)

\* A view that stays on the empty page.
EmptyPage_staying(f) == f

\* `if st.session_state['current_page'] > 1: st.session_state['current_page'] -= 1`
EmptyPage(f) ==
    IF f.ss["current_page"] > 1 THEN Set(f, "current_page", f.ss["current_page"] - 1) ELSE f

\* A view that records the new selection and keeps the page.
FilterChanged_keeping_page(f, in) == Set(f, FilterKey(in.mode), in.filter)

\* Reset the page when the browse mode's filter changes.
FilterChanged(f, in) ==
    IF f.ss[FilterKey(in.mode)] /= in.filter
    THEN Set(Set(f, "current_page", 1), FilterKey(in.mode), in.filter)
    ELSE f

\* A browse view's list: the cards and the bottom pager; an empty page steps back.
BrowseList(f, in, page, found) ==
    IF found = <<>> THEN EmptyPage(Fetched(f, "browse", page, 0, 0))
    ELSE Pager(Cards(Fetched(f, "browse", page, 0, Len(found)),
                     in, found, TRUE, TRUE, CardMode(in.mode)),
               in, "prev_" \o PagerStem(in.mode) \o "_bottom",
               "next_" \o PagerStem(in.mode) \o "_bottom", "current_page", FALSE, 0)

\* The fetch of the browse view's page.
BrowseFetch(f, in) ==
    IF f.stop THEN f
    ELSE BrowseList(f, in, f.ss["current_page"],
                    fetch_page(f.ss["current_page"], in.api_ok))

\* A browse view: filter, pager, list, cards, pager; the Genre view shows
\* nothing when get_genres returns nothing (`if genres:`).
BrowseView(f, in) ==
    IF in.mode = GENRE_MODE /\ ~in.genres_ok THEN f
    ELSE BrowseFetch(Pager(FilterChanged(Default(f, FilterKey(in.mode), in.filter), in),
                           in, "prev_" \o PagerStem(in.mode), "next_" \o PagerStem(in.mode),
                           "current_page", FALSE, 0),
                     in)

\* `if not st.session_state['all_recommendations'] or
\*     st.session_state.get('last_recommended_movie_id') != movie_id`
NeedsGeneration_always(ss) == TRUE
NeedsGeneration(ss) ==
    \/ ss["all_recommendations"] = <<>>
    \/ Get(ss, "last_recommended_movie_id", NO_MOVIE) /= ss["selected_movie_id"]

\* The panel: generate the recommendations once per selected movie.
Generate(f, in) ==
    IF NeedsGeneration(f.ss)
    THEN [Set(Set(Set(f,
            "all_recommendations", IF in.api_ok THEN RecList ELSE <<>>),
            "last_recommended_movie_id", f.ss["selected_movie_id"]),
            "recommendation_page", 1)
          EXCEPT !.requested = TRUE, !.panel = "generated"]
    ELSE f

\* The panel's Back to Browse button.
BackToBrowse(f, in) ==
    IF f.stop THEN f
    ELSE IF in.click = "Back to Browse"
    THEN Rerun(Set(Set(Set(Set(Show(f, "Back to Browse"),
             "show_recommendations", FALSE),
             "selected_movie_id", NO_MOVIE),
             "all_recommendations", <<>>),
             "recommendation_page", 1))
    ELSE Show(f, "Back to Browse")

\* The panel's page of recommendations between its two pagers.
PanelList(f, in, recommendations, current_page) ==
    LET total_pages == (Len(recommendations) + ITEMS_PER_PAGE - 1) \div ITEMS_PER_PAGE
        start_idx == (current_page - 1) * ITEMS_PER_PAGE
        end_idx == Min(start_idx + ITEMS_PER_PAGE, Len(recommendations))
        page_recommendations == PySlice(recommendations, start_idx, end_idx)
    IN  IF recommendations = <<>> THEN f
        ELSE Pager(Cards(Pager(f, in, "prev_rec_top", "next_rec_top",
                               "recommendation_page", TRUE, total_pages),
                         in, page_recommendations, FALSE, TRUE, RECOMMENDATIONS_MODE),
                   in, "prev_rec_bottom", "next_rec_bottom", "recommendation_page",
                   TRUE, total_pages)

PanelPages(f, in) ==
    BackToBrowse(PanelList(f, in, f.ss["all_recommendations"],
                           f.ss["recommendation_page"]),
                 in)

\* The recommendations panel.
Panel(f, in) ==
    IF f.stop THEN f
    ELSE IF ~(f.ss["show_recommendations"] /\ f.ss["selected_movie_id"] /= NO_MOVIE) THEN f
    ELSE PanelPages(Generate(Default(Default([f EXCEPT !.panel = "kept"],
                                             "recommendation_page", 1),
                                     "all_recommendations", <<>>),
                             in),
                    in)

\* The session defaults and the mode's view.
View(f, in) ==
    IF f.stop THEN f
    ELSE IF in.mode = SEARCH_MODE THEN SearchView(SessionInit(f, in), in)
    ELSE BrowseView(SessionInit(f, in), in)

\* main(): the sidebar, the session defaults, the mode's view, the panel.
main(in) == Panel(View(Sidebar(Frame, in), in), in)

\* ---- the runs of the script
NoClick == NONE

\* What a run that ended as f leaves behind.
Leave(f, in) ==
    /\ in.api_ok \/ f.requested
    /\ in.genres_ok \/ in.mode \in {GENRE_MODE, ADVANCED_MODE}
    /\ in.disk_ok \/ (f.saved /\ disk_failures < MaxDiskFailures)
    /\ disk_failures' = IF in.disk_ok THEN disk_failures ELSE disk_failures + 1
    /\ history_adds' = IF f.added THEN history_adds + 1 ELSE history_adds
    /\ session_state' = f.ss
    /\ run_in' = session_state
    /\ panel_run' = f.panel
    /\ liked_movies' = f.liked_movies
    /\ liked_movies_file' = f.liked_movies_file
    /\ user_search_history' = f.user_search_history
    /\ search_history_file' = f.search_history_file
    /\ last_op' = f.op
    /\ pre' = [liked_movies |-> load_liked_movies(liked_movies_file),
               liked_movies_file |-> liked_movies_file,
               user_search_history |-> load_search_history(search_history_file)]
    /\ mode' = in.mode
    /\ search_query' = in.search_query
    /\ filter_choice' = in.filter
    /\ buttons' = IF f.stop THEN {} ELSE f.shown
    /\ clicked' = in.click
    /\ fetched' = f.fetched
    /\ rerun_pending' = f.stop
    /\ movie_cache' = load_cache(cache_file)
    /\ UNCHANGED <<now, cache_file>>

\* One run of the script on the widgets' values `in`, and what it leaves.
Run(in) == Leave(main(in), in)

\* The widgets' values in a run, and whether the requests of the run succeed
\* (api_ok: the lists; genres_ok: get_genres): a filter over genres falls back
\* to its default when get_genres returns nothing.
Widgets(m, query, selection, click, api_ok, genres_ok, disk_ok) ==
    [mode |-> m, search_query |-> query,
     filter |-> IF m \in {GENRE_MODE, ADVANCED_MODE} /\ ~genres_ok THEN 0 ELSE selection,
     click |-> click, api_ok |-> api_ok, genres_ok |-> genres_ok, disk_ok |-> disk_ok]

\* The user acts on a page that is rendered, that is when no rerun is due.
UserEvent ==
    /\ ~rerun_pending
    /\ events < MaxEvents
    /\ events' = events + 1

\* The user picks another mode: the widgets of the mode left are not rendered
\* and lose their values.
ChangeMode ==
    \E m \in ModeSet \ {mode}, api_ok, genres_ok, disk_ok \in BOOLEAN :
        /\ UserEvent
        /\ Run(Widgets(m, EMPTY_QUERY, 0, NoClick, api_ok, genres_ok, disk_ok))

\* The user types a query, or clears it.
TypeQuery ==
    \E query \in (0 .. NumQueries) \ {search_query},
       api_ok, genres_ok, disk_ok \in BOOLEAN :
        /\ UserEvent
        /\ mode = SEARCH_MODE
        /\ Run(Widgets(mode, query, filter_choice, NoClick, api_ok, genres_ok, disk_ok))

\* The user changes the browse mode's filter.
SelectFilter ==
    \E selection \in (0 .. (NumFilters - 1)) \ {filter_choice},
       api_ok, genres_ok, disk_ok \in BOOLEAN :
        /\ UserEvent
        /\ mode /= SEARCH_MODE
        /\ mode = GENRE_MODE => "prev_genre" \in buttons
        /\ Run(Widgets(mode, search_query, selection, NoClick, api_ok, genres_ok, disk_ok))

\* The Next buttons that the script does not bound, by the page they turn.
SearchNextKeys == {"next_search_top", "next_search_bottom"}
BrowseNextKeys == {"next_" \o PagerStem(mode), "next_" \o PagerStem(mode) \o "_bottom"}

\* The cards of the recommendations the user does not click on.
CardsLeftAlone ==
    UNION {{"like_" \o ToString(NumCards + k), "unlike_" \o ToString(NumCards + k)} :
              k \in (NumRecCards + 1) .. MaxRecs}

\* The user clicks a button of the page.
Click ==
    \E key \in buttons \ CardsLeftAlone,
       api_ok, genres_ok, disk_ok \in BOOLEAN :
        /\ UserEvent
        /\ key \in SearchNextKeys => session_state["search_page"] < MaxPage
        /\ key \in BrowseNextKeys => session_state["current_page"] < MaxPage
        /\ Run(Widgets(mode, search_query, filter_choice, key, api_ok, genres_ok, disk_ok))

\* The text input's value in the run that st.rerun() starts: the sidebar's
\* buttons end their run before the text input is rendered, and Streamlit
\* forgets the value of a widget that a run did not render.
RerunQuery ==
    IF clicked \in {"View All Liked", "Clear History"} THEN EMPTY_QUERY ELSE search_query

\* st.rerun(), and the first run of a session.
MainRerun ==
    \E api_ok, genres_ok, disk_ok \in BOOLEAN :
        /\ rerun_pending
        /\ UNCHANGED events
        /\ Run(Widgets(mode, RerunQuery, filter_choice, NoClick, api_ok, genres_ok, disk_ok))

\* A session before its first run: the radio on its first option, the text
\* input empty, nothing in st.session_state.
InitMainUi ==
    /\ session_state = [key \in {} |-> 0]
    /\ mode = SEARCH_MODE
    /\ search_query = EMPTY_QUERY
    /\ filter_choice = 0
    /\ buttons = {}
    /\ clicked = NoClick
    /\ fetched = NoFetch
    /\ rerun_pending = TRUE
    /\ events = 0
    /\ run_in = [key \in {} |-> 0]
    /\ panel_run = "none"

(***************************************************************************)
(* Two sessions of movie_recommender.py: each has its own MovieRecommender *)
(* object, and both read and write the same liked_movies.pkl.              *)
(***************************************************************************)

\* ---- bounds
MaxSessionLikes == 2  \* calls of like_movie by the two sessions together

VARIABLES
    session_objects,   \* session -> its MovieRecommender object, once constructed
    like_log           \* the calls of like_movie so far, in order

session_vars == <<session_objects, like_log>>

Sessions == {1, 2}

NoObject == [constructed |-> FALSE, liked_movies |-> NoLikes, loaded_after |-> 0]

\* The movie a stored liked-movies file holds before the sessions start.
StoredLike == NumMovies + 1

\* `recommender = MovieRecommender(TMDB_API_KEY)` in a session's render.
SessionConstruct ==
    \E s \in Sessions :
        /\ session_objects' =
              [session_objects EXCEPT ![s] =
                  [constructed |-> TRUE,
                   liked_movies |-> load_liked_movies(liked_movies_file),
                   loaded_after |-> Len(like_log)]]
        /\ UNCHANGED <<like_log, liked_movies_file>>

\* `recommender.like_movie(movie['id'], movie, mode=current_mode)` in a session.
SessionLike ==
    \E s \in Sessions, movie_id \in MovieIds, disk_ok \in BOOLEAN :
        LET liked == like_movie(session_objects[s].liked_movies, movie_id,
                                Movie(movie_id), SEARCH_MODE, now)
        IN  /\ session_objects[s].constructed
            /\ Len(like_log) < MaxSessionLikes
            /\ session_objects' = [session_objects EXCEPT ![s].liked_movies = liked]
            /\ liked_movies_file' = save_liked_movies(liked_movies_file, liked, disk_ok)
            /\ like_log' = Append(like_log,
                                  [session |-> s, movie_id |-> movie_id, saved |-> disk_ok,
                                   loaded_after |-> session_objects[s].loaded_after,
                                   liked_movies |-> liked])

InitSessionsIdle ==
    /\ session_objects = [s \in Sessions |-> NoObject]
    /\ like_log = <<>>

(***************************************************************************)
(* The remote calls of both scripts, as functions of the server's answer.  *)
(***************************************************************************)

VARIABLES
    response,          \* what the server answers to the next request
    fetch_out,         \* the last remote call and the value it returned
    profile_in,        \* what a call of get_recommendations_from_history works on
    profile_out        \* what that call computed and returned

io_vars == <<response, fetch_out, profile_in, profile_out>>

\* No call of get_recommendations_from_history, and no result yet.
NoProfile == [given |-> FALSE]
NoRecommendations == [called |-> FALSE]

\* Python values a remote call returns.
PyNone == [type |-> "None"]
PyList(items) == [type |-> "list", items |-> items]
PyTuple(first, second) == [type |-> "tuple", first |-> first, second |-> second]

\* The bodies of an answer: text that is no JSON, an image, a JSON array, a
\* JSON object with some of the keys the callers read.
JsonKeys == {"results", "genres", "total_pages", "Response"}

Bodies ==
    {[kind |-> k, keys |-> {}, Response |-> NONE] : k \in {"text", "image", "array"}}
    \cup {[kind |-> "object", keys |-> K, Response |-> v] :
             K \in SUBSET (JsonKeys \ {"Response"}), v \in {NONE}}
    \cup {[kind |-> "object", keys |-> K \cup {"Response"}, Response |-> v] :
             K \in SUBSET (JsonKeys \ {"Response"}), v \in {"True", "False"}}

\* The request raises (no connection, timeout), or an answer arrives.
NoAnswer == [raised |-> TRUE, status |-> 0, body |-> [kind |-> "text", keys |-> {},
                                                     Response |-> NONE]]

Responses ==
    {NoAnswer} \cup [raised : {FALSE}, status : {200, 404, 503}, body : Bodies]

\* The value of a key of a JSON object.
JsonValue(key) ==
    CASE key = "results" -> PyList(PageMovies)
      [] key = "genres" -> PyList(<<[id |-> 28, name |-> "Action"]>>)
      [] OTHER -> PyNone

\* `response = self.session.get(...); response.raise_for_status()`: raises
tmdb_get_raises_unchecked(r) == r.raised

tmdb_get_raises(r) == r.raised \/ r.status >= 400

\* `response.json()`: raises on a body that is no JSON
json_raises(r) == r.body.kind \notin {"array", "object"}

\* `data[key]`: raises on a JSON value without the key
index_raises(r, key) == r.body.kind /= "object" \/ key \notin r.body.keys

\* The functions that return `response.json()['results']`, or [] on any exception.
ListFetchers ==
    {"fetch_trending_movies", "fetch_popular_movies", "get_movie_by_genre",
     "get_movie_by_language", "get_movie_by_year", "get_movies_with_filters",
     "get_latest_movies", "get_dubbed_movies"}

RemoteFunctions ==
    ListFetchers \cup {"get_genres", "search_movies", "get_movie_details",
                       "process_poster_with_opencv", "fetch_movie_details"}

\* What the remote function fn returns when the server answers r.
Remote(fn, r) ==
    CASE fn \in ListFetchers ->
            IF tmdb_get_raises(r) \/ json_raises(r) \/ index_raises(r, "results")
            THEN PyList(<<>>)
            ELSE JsonValue("results")
      [] fn = "get_genres" ->
            IF tmdb_get_raises(r) \/ json_raises(r) \/ index_raises(r, "genres")
            THEN PyList(<<>>)
            ELSE JsonValue("genres")
      [] fn = "search_movies" ->
            IF tmdb_get_raises(r) \/ json_raises(r) \/ index_raises(r, "results")
            THEN PyTuple(PyList(<<>>), 1)
            ELSE PyTuple(JsonValue("results"),
                         IF "total_pages" \in r.body.keys THEN NumQueries ELSE 1)
      [] fn = "get_movie_details" ->
            IF tmdb_get_raises(r) \/ json_raises(r)
            THEN PyNone
            ELSE [type |-> "json", body |-> r.body]
      [] fn = "process_poster_with_opencv" ->
            IF r.raised \/ r.body.kind /= "image"
            THEN PyNone
            ELSE [type |-> "dict", body |-> r.body]
      [] OTHER ->
            IF r.raised \/ json_raises(r) \/ r.body.kind /= "object"
            THEN PyNone
            ELSE IF r.body.Response = "True"
            THEN [type |-> "json", body |-> r.body]
            ELSE PyNone

NoRemoteCall == [fn |-> NONE, value |-> PyNone]

\* One remote call: it reads the answer and touches nothing else.
RemoteCall ==
    \E fn \in RemoteFunctions :
        /\ fetch_out' = [fn |-> fn, value |-> Remote(fn, response)]
        /\ UNCHANGED <<response, profile_in, profile_out>>

InitIoIdle ==
    /\ response = NoAnswer
    /\ fetch_out = NoRemoteCall
    /\ profile_in = NoProfile
    /\ profile_out = NoRecommendations

InitRemote ==
    /\ response \in Responses
    /\ fetch_out = NoRemoteCall
    /\ profile_in = NoProfile
    /\ profile_out = NoRecommendations

InitAppIdle ==
    /\ movies = Catalogue(1, 0, FALSE)
    /\ vote_average_present = TRUE
    /\ similarity = SimilarityMatrix(1, SimLevels, 0, 0)
    /\ omdb = OmdbFor(0, 1)
    /\ rec_in = NoCall
    /\ rec_out = NoResult
    /\ InitAppUi

app_vars == <<movies, vote_average_present, similarity, omdb, rec_in, rec_out,
              app_session, query_movie, num_rec, app_view, app_rerun, app_in>>

vars == <<movies, vote_average_present, similarity, omdb, rec_in, rec_out,
          app_session, query_movie, num_rec, app_view, app_rerun, app_in,
          liked_movies, liked_movies_file, user_search_history,
          search_history_file, now, last_op, pre, history_adds, disk_failures,
          session_state, mode, search_query, filter_choice, buttons, clicked,
          fetched, rerun_pending, events, run_in, panel_run, response, fetch_out,
          profile_in, profile_out, cache_file, movie_cache,
          session_objects, like_log>>

\* An object stored by earlier runs, for the sessions of the script: a
\* history file one entry short of the cap.
InitRecommenderUsed ==
    /\ liked_movies_file = MissingFile(NoLikes)
    /\ liked_movies = NoLikes
    /\ search_history_file = StoredFile(StoredHistory(HISTORY_CAP - HistoryHeadroom))
    /\ user_search_history = load_search_history(search_history_file)
    /\ now = 0
    /\ last_op = NoOp
    /\ history_adds = 0
    /\ disk_failures = 0
    /\ cache_file = MissingFile(NoLikes)
    /\ movie_cache = NoLikes
    /\ pre = Snapshot

\* ---- the sessions of movie_recommender.py
InitMain == InitAppIdle /\ InitRecommenderUsed /\ InitMainUi /\ InitIoIdle /\ InitSessionsIdle

NextMain ==
    \/ ChangeMode /\ UNCHANGED <<app_vars, io_vars, session_vars>>
    \/ TypeQuery /\ UNCHANGED <<app_vars, io_vars, session_vars>>
    \/ SelectFilter /\ UNCHANGED <<app_vars, io_vars, session_vars>>
    \/ Click /\ UNCHANGED <<app_vars, io_vars, session_vars>>
    \/ MainRerun /\ UNCHANGED <<app_vars, io_vars, session_vars>>

SpecMain == InitMain /\ [][NextMain]_vars

\* ---- the remote calls as functions of the server's answer
InitRemoteCalls ==
    InitAppIdle /\ InitRecommenderUsed /\ InitMainUi /\ InitRemote /\ InitSessionsIdle

NextRemote ==
    RemoteCall /\ UNCHANGED <<app_vars, recommender_vars, main_vars, session_vars>>

SpecRemote == InitRemoteCalls /\ [][NextRemote]_vars

\* ---- the construction of a MovieRecommender over the three files
StoredBlobs(empty, data) ==
    {MissingFile(empty)}
    \cup {StoredFile(d) : d \in {empty, data}}
    \cup {UnreadableFile(d) : d \in {empty, data}}
    \cup {CorruptFile(d) : d \in {empty, data}}

InitLoad ==
    /\ InitAppIdle /\ InitMainUi /\ InitIoIdle /\ InitSessionsIdle
    /\ liked_movies_file \in
          StoredBlobs(NoLikes, like_movie(NoLikes, 1, Movie(1), SEARCH_MODE, 0))
    /\ search_history_file \in StoredBlobs(<<>>, StoredHistory(1))
    /\ cache_file \in StoredBlobs(NoLikes, [id \in {1} |-> Movie(1)])
    /\ liked_movies = NoLikes
    /\ user_search_history = <<>>
    /\ movie_cache = NoLikes
    /\ now = 0
    /\ last_op = NoOp
    /\ history_adds = 0
    /\ disk_failures = 0
    /\ pre = Snapshot

NextLoad == Construct /\ UNCHANGED <<app_vars, main_vars, io_vars, session_vars>>

SpecLoad == InitLoad /\ [][NextLoad]_vars

\* ---- two sessions over one liked-movies file
InitSessions ==
    /\ InitAppIdle /\ InitMainUi /\ InitIoIdle /\ InitSessionsIdle
    /\ liked_movies_file \in
          {MissingFile(NoLikes),
           StoredFile(like_movie(NoLikes, StoredLike, Movie(StoredLike), SEARCH_MODE, 0))}
    /\ liked_movies = NoLikes
    /\ search_history_file = MissingFile(<<>>)
    /\ user_search_history = <<>>
    /\ now = 0
    /\ last_op = NoOp
    /\ history_adds = 0
    /\ disk_failures = 0
    /\ cache_file = MissingFile(NoLikes)
    /\ movie_cache = NoLikes
    /\ pre = Snapshot

OtherRecommenderVars ==
    <<liked_movies, user_search_history, search_history_file, now, last_op, pre,
      history_adds, disk_failures, cache_file, movie_cache>>

NextSessions ==
    \/ SessionConstruct /\ UNCHANGED <<app_vars, main_vars, io_vars, OtherRecommenderVars>>
    \/ SessionLike /\ UNCHANGED <<app_vars, main_vars, io_vars, OtherRecommenderVars>>

SpecSessions == InitSessions /\ [][NextSessions]_vars

\* ---- the liked movies of one MovieRecommender object
InitLikes == InitAppIdle /\ InitRecommenderFresh /\ InitMainUi /\ InitIoIdle /\ InitSessionsIdle

NextLikes ==
    \/ LikeMovie /\ UNCHANGED <<app_vars, main_vars, io_vars, session_vars>>
    \/ UnlikeMovie /\ UNCHANGED <<app_vars, main_vars, io_vars, session_vars>>
    \/ Construct /\ UNCHANGED <<app_vars, main_vars, io_vars, session_vars>>
    \/ Tick /\ UNCHANGED <<app_vars, main_vars, io_vars, session_vars>>

SpecLikes == InitLikes /\ [][NextLikes]_vars

\* ---- the search history of one MovieRecommender object
InitHistory == InitAppIdle /\ InitRecommenderStored /\ InitMainUi /\ InitIoIdle /\ InitSessionsIdle

NextHistory ==
    \/ AddToSearchHistory /\ UNCHANGED <<app_vars, main_vars, io_vars, session_vars>>
    \/ Construct /\ UNCHANGED <<app_vars, main_vars, io_vars, session_vars>>
    \/ Tick /\ UNCHANGED <<app_vars, main_vars, io_vars, session_vars>>

SpecHistory == InitHistory /\ [][NextHistory]_vars

\* ---- recommend() of app.py as a function of its inputs
InitRecommend ==
    /\ InitRecommenderFresh
    /\ InitMainUi
    /\ InitIoIdle
    /\ InitSessionsIdle
    /\ LoadAssets(CatalogueSizes, {0, SimLevels - 1, SimLevels},
                  0 .. (NumRatings - 1), 0 .. 1, 0 .. 1)
    /\ rec_in = NoCall
    /\ rec_out = NoResult
    /\ InitAppUi

NextRecommend == CallRecommend /\ UNCHANGED <<recommender_vars, main_vars, io_vars, session_vars>>

SpecRecommend == InitRecommend /\ [][NextRecommend]_vars

\* ---- the script of app.py
InitApp ==
    /\ InitRecommenderFresh
    /\ InitMainUi
    /\ InitIoIdle
    /\ InitSessionsIdle
    /\ LoadAssets(AppCatalogueSizes, {SimLevels - 1, SimLevels}, {1}, {1}, {0})
    /\ rec_in = NoCall
    /\ rec_out = NoResult
    /\ InitAppUi

NextApp ==
    \/ OpenPage /\ UNCHANGED <<recommender_vars, main_vars, io_vars, session_vars>>
    \/ FollowCard /\ UNCHANGED <<recommender_vars, main_vars, io_vars, session_vars>>
    \/ PickMovie /\ UNCHANGED <<recommender_vars, main_vars, io_vars, session_vars>>
    \/ SetNumRec /\ UNCHANGED <<recommender_vars, main_vars, io_vars, session_vars>>
    \/ ClickBack /\ UNCHANGED <<recommender_vars, main_vars, io_vars, session_vars>>
    \/ ClickRefresh /\ UNCHANGED <<recommender_vars, main_vars, io_vars, session_vars>>
    \/ AppRerun /\ UNCHANGED <<recommender_vars, main_vars, io_vars, session_vars>>

SpecApp == InitApp /\ [][NextApp]_vars

(***************************************************************************)
(* Claims about src/app.py                                                 *)
(***************************************************************************)

\* The catalogue index of the movie a call of recommend() was made for.
QueryIndex ==
    CHOOSE i \in 0 .. (Len(movies) - 1) :
        /\ movies[i + 1].title = rec_in.movie_name
        /\ \A j \in 0 .. (i - 1) : movies[j + 1].title /= rec_in.movie_name

\* The place of movie j in the query's similarity row sorted by descending
\* similarity, equal similarities in catalogue order.
SimilarityPlace(j) ==
    LET row == similarity[QueryIndex + 1]
    IN  1 + Cardinality({k \in 0 .. (Len(movies) - 1) :
                            \/ row[k + 1] > row[j + 1]
                            \/ row[k + 1] = row[j + 1] /\ k < j})

\* The candidates: the at most 30 movies after the first entry of that row.
Candidates ==
    {j \in 0 .. (Len(movies) - 1) : SimilarityPlace(j) \in 2 .. (TOP_SIMILAR + 1)}

VoteAverage(j) == IF vote_average_present THEN movies[j + 1].vote_average ELSE 0

PickSet == {rec_out.picks[k] : k \in 1 .. Len(rec_out.picks)}

\* C1: recommend(movie_name, num_movies) returns its titles in non-increasing
\* order of rating (vote_average, 0 when the column is absent); the returned
\* movies are min(num_movies, number of candidates) distinct candidates, no
\* candidate left out is rated higher than a returned one, and names and
\* posters have the same length.
RecommendTopRated ==
    rec_in /= NoCall =>
        /\ Len(rec_out.names) = Len(rec_out.posters)
        /\ Len(rec_out.names) = Len(rec_out.picks)
        /\ Len(rec_out.names) = Min(rec_in.num_movies, Cardinality(Candidates))
        /\ Cardinality(PickSet) = Len(rec_out.picks)
        /\ PickSet \subseteq Candidates
        /\ \A k \in 1 .. Len(rec_out.names) :
              rec_out.names[k] = movies[rec_out.picks[k] + 1].title
        /\ \A k1, k2 \in 1 .. Len(rec_out.picks) :
              k1 < k2 => VoteAverage(rec_out.picks[k1]) >= VoteAverage(rec_out.picks[k2])
        /\ \A c \in Candidates \ PickSet : \A p \in PickSet :
              VoteAverage(c) <= VoteAverage(p)

\* C1 witness: a call on a catalogue of more than 31 movies (the cap of 30
\* candidates leaves a movie out) that returned two movies and left a
\* lower-rated candidate out.
RecommendTopRatedWitness ==
    /\ rec_in /= NoCall
    /\ Len(movies) > TOP_SIMILAR + 1
    /\ Cardinality(Candidates) = TOP_SIMILAR
    /\ Len(rec_out.picks) = 2
    /\ \E c \in Candidates \ PickSet : VoteAverage(c) < VoteAverage(rec_out.picks[2])

\* C2: recommend(movie_name, num_movies) never returns the query movie itself,
\* whatever the catalogue and the similarity matrix.
RecommendExcludesQuery ==
    rec_in /= NoCall => QueryIndex \notin PickSet

\* C3: in every display path the URL rendered for a poster that is missing
\* (the lookup failed, or "Poster" is absent, empty or "N/A") is one and the
\* same placeholder constant.
MissingPosterSamePlaceholder ==
    \A k \in 1 .. Len(app_view.images) :
        app_view.images[k].missing => app_view.images[k].url = PLACEHOLDER

\* C8: for every catalogue size and every number of Refresh clicks the
\* trending window is computed without failure, starts inside the catalogue
\* and holds min(10, n) movies of the catalogue.
TrendingWindowConsistent ==
    app_view.kind = "trending" =>
        /\ ~app_view.failed
        /\ app_view.start_idx \in 0 .. (Len(movies) - 1)
        /\ Len(app_view.window) = Min(TRENDING_SIZE, Len(movies))
        /\ \A k \in 1 .. Len(app_view.window) : app_view.window[k] \in Titles


(***************************************************************************)
(* Claims about the MovieRecommender class of src/movie_recommender.py     *)
(***************************************************************************)

\* The records of the ids other than movie_id are the ones before the call.
OthersUnchanged(movie_id) ==
    \A id \in (DOMAIN pre.liked_movies) \ {movie_id} :
        /\ id \in DOMAIN liked_movies
        /\ liked_movies[id] = pre.liked_movies[id]

\* C4: after like_movie(id, ...) is_movie_liked(id) is true; the liked ids are
\* the ones before the call and id, so a like of an id already liked leaves
\* the set of liked ids unchanged; no record of another id changes.
LikeIdempotentOnMembership ==
    last_op.op = "like_movie" =>
        /\ is_movie_liked(liked_movies, last_op.movie_id)
        /\ DOMAIN liked_movies = (DOMAIN pre.liked_movies) \cup {last_op.movie_id}
        /\ (is_movie_liked(pre.liked_movies, last_op.movie_id)
               => DOMAIN liked_movies = DOMAIN pre.liked_movies)
        /\ OthersUnchanged(last_op.movie_id)

\* C4 witness: a like of an id already liked, next to another liked id, that
\* overwrote the id's record.
LikeIdempotentOnMembershipWitness ==
    /\ last_op.op = "like_movie"
    /\ is_movie_liked(pre.liked_movies, last_op.movie_id)
    /\ Cardinality(DOMAIN pre.liked_movies) >= 2
    /\ liked_movies[last_op.movie_id] /= pre.liked_movies[last_op.movie_id]

\* C5: unlike_movie(id) of an id that is not liked changes neither the mapping
\* nor the liked-movies file, which it does not write; unlike_movie(id) of a
\* liked id removes exactly that id and changes no other record.
UnlikeFrame ==
    last_op.op = "unlike_movie" =>
        IF is_movie_liked(pre.liked_movies, last_op.movie_id)
        THEN /\ DOMAIN liked_movies = (DOMAIN pre.liked_movies) \ {last_op.movie_id}
             /\ OthersUnchanged(last_op.movie_id)
        ELSE /\ liked_movies = pre.liked_movies
             /\ ~last_op.saved
             /\ liked_movies_file = pre.liked_movies_file

\* C5 witness: an unlike of an id that is not liked while another id is, the
\* file holding something else than the mapping, so that a write would show.
UnlikeFrameWitness ==
    /\ last_op.op = "unlike_movie"
    /\ ~is_movie_liked(pre.liked_movies, last_op.movie_id)
    /\ pre.liked_movies /= NoLikes
    /\ liked_movies_file /= StoredFile(liked_movies)

\* C9: the search history never holds more than 50 entries; after
\* add_to_search_history it is the history before the call followed by the new
\* entry, without its oldest entries beyond 50: the order is kept and the new
\* entry is last.
HistoryCapped ==
    /\ Len(user_search_history) <= HISTORY_CAP
    /\ last_op.op = "add_to_search_history" =>
          LET all == Append(pre.user_search_history, last_op.entry)
              dropped == Max(0, Len(all) - HISTORY_CAP)
          IN  /\ Len(user_search_history) = Len(all) - dropped
              /\ \A k \in 1 .. Len(user_search_history) :
                    user_search_history[k] = all[k + dropped]
              /\ user_search_history[Len(user_search_history)] = last_op.entry

\* C9 witness: an add to a history of 50 entries, which dropped the oldest.
HistoryCappedWitness ==
    /\ last_op.op = "add_to_search_history"
    /\ Len(pre.user_search_history) = HISTORY_CAP
    /\ Len(user_search_history) = HISTORY_CAP
    /\ user_search_history[1] = pre.user_search_history[2]
    /\ user_search_history[1] /= pre.user_search_history[1]

(***************************************************************************)
(* Claims about main() of src/movie_recommender.py                         *)
(***************************************************************************)

PageKeys == {"current_page", "search_page", "recommendation_page"}
PreviousKeys ==
    {"prev_search_top", "prev_search_bottom", "prev_rec_top", "prev_rec_bottom"}
    \cup {"prev_" \o PagerStem(m) : m \in ModeSet \ {SEARCH_MODE}}
    \cup {"prev_" \o PagerStem(m) \o "_bottom" : m \in ModeSet \ {SEARCH_MODE}}

\* C6: whatever the user clicks, types or selects, and whatever the service
\* returns, each of current_page, search_page and recommendation_page that
\* st.session_state holds is at least 1.
PagesAtLeastOne ==
    \A key \in PageKeys \cap DOMAIN session_state : session_state[key] >= 1

\* C6 witness: the page after a click on a Previous button that the script
\* refused (no rerun followed) because the page was 1.
PagesAtLeastOneWitness ==
    /\ clicked \in PreviousKeys
    /\ ~rerun_pending
    /\ \E key \in PageKeys \cap DOMAIN session_state : session_state[key] = 1

\* C7: on a rendered Search view with a query, search_page does not exceed the
\* number of pages of the query's results, whichever Next button was clicked.
SearchPageWithinTotal ==
    (/\ mode = SEARCH_MODE
     /\ search_query /= EMPTY_QUERY
     /\ ~rerun_pending
     /\ "search_page" \in DOMAIN session_state)
        => session_state["search_page"] <= TotalPages(search_query)

\* The log `new` is the log `old`, or `old` with one entry appended and, at
\* the cap, without its oldest entry: no entry is modified or reordered.
AppendedOrKept(old, new) ==
    \/ new = old
    \/ \E dropped \in 0 .. 1 :
          /\ Len(new) = Len(old) + 1 - dropped
          /\ dropped = 1 => Len(new) = HISTORY_CAP
          /\ \A k \in 1 .. (Len(new) - 1) : new[k] = old[k + dropped]

\* C10 as the specification states it: every run of the script leaves the
\* stored search history as it was, or appends one entry to it, dropping the
\* oldest entry only at the cap of 50.
HistoryAppendOnly ==
    [][AppendedOrKept(load_search_history(search_history_file),
                      load_search_history(search_history_file'))]_vars

\* C10, amended: every run of the script leaves the stored search history as
\* it was, or appends one entry to it, dropping the oldest entry only at the
\* cap of 50, or, on a click on Clear History, empties it.
HistoryAppendOnlyOrCleared ==
    [][\/ AppendedOrKept(load_search_history(search_history_file),
                         load_search_history(search_history_file'))
       \/ /\ clicked' = "Clear History"
          /\ load_search_history(search_history_file') = <<>>]_vars

\* C10 witness: a click on Clear History that emptied a stored history of 50
\* entries.
HistoryAppendOnlyOrClearedWitness ==
    /\ clicked = "Clear History"
    /\ Len(pre.user_search_history) = HISTORY_CAP
    /\ load_search_history(search_history_file) = <<>>

\* C11: the record of a like made through the UI stores, as its mode, the
\* sidebar mode that was active at the click.
LikedModeIsSidebarMode ==
    last_op.op = "like_movie" => liked_movies[last_op.movie_id].mode = mode

\* The answers on which a call that reads the JSON key `key` raises: the
\* request fails, the status is an error, the body is no JSON object or lacks
\* the key.
FailsFor(key) ==
    \/ response.raised
    \/ response.status >= 400
    \/ response.body.kind /= "object"
    \/ key \notin response.body.keys

\* C12: a remote call whose request or decoding raises returns its empty
\* value ([] for the list fetchers and get_genres, ([], 1) for search_movies,
\* None for get_movie_details, process_poster_with_opencv and
\* fetch_movie_details, the latter also when "Response" is not "True"), and no
\* remote call changes the liked movies, the search history or the pages.
RemoteDegrades ==
    /\ [](fetch_out.fn \in ListFetchers /\ FailsFor("results")
             => fetch_out.value = PyList(<<>>))
    /\ [](fetch_out.fn = "get_genres" /\ FailsFor("genres")
             => fetch_out.value = PyList(<<>>))
    /\ [](fetch_out.fn = "search_movies" /\ FailsFor("results")
             => fetch_out.value = PyTuple(PyList(<<>>), 1))
    /\ [](/\ fetch_out.fn = "get_movie_details"
          /\ \/ response.raised
             \/ response.status >= 400
             \/ response.body.kind \notin {"array", "object"}
          => fetch_out.value = PyNone)
    /\ [](/\ fetch_out.fn = "process_poster_with_opencv"
          /\ (response.raised \/ response.body.kind /= "image")
          => fetch_out.value = PyNone)
    /\ [](/\ fetch_out.fn = "fetch_movie_details"
          /\ \/ response.raised
             \/ response.body.kind /= "object"
             \/ response.body.Response /= "True"
          => fetch_out.value = PyNone)
    /\ [][fetch_out' /= fetch_out =>
              UNCHANGED <<liked_movies, liked_movies_file, user_search_history,
                          search_history_file, session_state>>]_vars

\* C12 witness: a list fetcher answered with an error status whose body holds
\* results, and returning [].
RemoteDegradesWitness ==
    /\ fetch_out.fn \in ListFetchers
    /\ ~response.raised
    /\ response.status >= 400
    /\ response.body.kind = "object"
    /\ "results" \in response.body.keys
    /\ fetch_out.value = PyList(<<>>)

\* C13: a constructed MovieRecommender holds, for each of the three files,
\* the object stored in it, or the empty value ({} for the liked movies and the
\* cache, [] for the history) when the file is missing, cannot be opened or
\* cannot be unpickled: the constructor completes whatever the files' state.
LoadTreatsFailureAsAbsence ==
    last_op.op = "__init__" =>
        /\ liked_movies =
              IF liked_movies_file.state = "ok" THEN liked_movies_file.data ELSE NoLikes
        /\ user_search_history =
              IF search_history_file.state = "ok" THEN search_history_file.data ELSE <<>>
        /\ movie_cache = IF cache_file.state = "ok" THEN cache_file.data ELSE NoLikes

\* C13 witness: a constructor that completed over a liked-movies file that
\* does not unpickle, a history file that cannot be opened and no cache file.
LoadTreatsFailureAsAbsenceWitness ==
    /\ last_op.op = "__init__"
    /\ liked_movies_file.state = "corrupt" /\ liked_movies_file.data /= NoLikes
    /\ search_history_file.state = "unreadable" /\ search_history_file.data /= <<>>
    /\ cache_file.state = "missing"
    /\ liked_movies = NoLikes /\ user_search_history = <<>> /\ movie_cache = NoLikes

\* The two sessions constructed their objects before either called like_movie,
\* then each liked one new movie, a different one, and both writes succeeded.
TwoWriters ==
    /\ Len(like_log) = 2
    /\ like_log[1].session /= like_log[2].session
    /\ like_log[1].movie_id /= like_log[2].movie_id
    /\ like_log[1].loaded_after = 0 /\ like_log[2].loaded_after = 0
    /\ like_log[1].saved /\ like_log[2].saved

\* C14: after two sessions that loaded the same liked-movies file each liked a
\* different movie, the file holds the later writer's mapping only: the
\* earlier writer's like is in no object constructed afterwards.
LaterWriterWins ==
    TwoWriters =>
        /\ liked_movies_file = StoredFile(like_log[2].liked_movies)
        /\ ~is_movie_liked(load_liked_movies(liked_movies_file), like_log[1].movie_id)
        /\ \A s \in Sessions :
              session_objects[s].loaded_after = 2
                  => ~is_movie_liked(session_objects[s].liked_movies,
                                     like_log[1].movie_id)

\* C14 witness: the session that wrote first constructs its object again and
\* no longer finds its own like, while the file held a like before either.
LaterWriterWinsWitness ==
    /\ TwoWriters
    /\ session_objects[like_log[1].session].loaded_after = 2
    /\ is_movie_liked(load_liked_movies(liked_movies_file), StoredLike)
    /\ is_movie_liked(like_log[1].liked_movies, like_log[1].movie_id)

(***************************************************************************)
(* src/app.py: the selection, the 'movie' query parameter and the selectbox *)
(***************************************************************************)

\* The last run showed the details and the recommendations of title t.
ShowsMovie(t) ==
    /\ app_view.kind = "detail"
    /\ rec_in.movie_name = t
    /\ app_session.selected_movie_name = t
    /\ "movie_selectbox" \in DOMAIN app_session
    /\ app_session.movie_selectbox = t

\* The last run left the selection and the selectbox's value as they were.
SelectionUnchanged ==
    /\ app_session.selected_movie_name = app_in.session.selected_movie_name
    /\ Selectbox(app_session) = Selectbox(app_in.session)

\* C15: a render that starts with a 'movie' parameter naming a title of the
\* catalogue selects that title (selected_movie_name and the selectbox's
\* value) and shows its details and recommendations; one that starts with a
\* parameter naming no title of the catalogue leaves both unchanged.
MovieParamSelects ==
    (app_in.event /= "none" /\ app_in.query /= NO_MOVIE) =>
        IF app_in.query \in Titles THEN ShowsMovie(app_in.query)
        ELSE SelectionUnchanged

\* C15, amended: the same, for every render but the two in which the user
\* acts on the selection: a render started by a change of the selectbox shows
\* the selectbox's choice (the trending grid when it was cleared), and one
\* started by Back to Trending clears the selection and the parameter.
MovieParamSelectsUnlessUserActs ==
    (app_in.event /= "none" /\ app_in.query /= NO_MOVIE) =>
        CASE app_in.event = "pick" ->
                 /\ app_session.selected_movie_name = app_session.movie_selectbox
                 /\ app_session.selected_movie_name /= app_in.query
                 /\ query_movie = app_session.selected_movie_name
          [] app_in.event = "back" ->
                 /\ app_session.selected_movie_name = NO_MOVIE
                 /\ query_movie = NO_MOVIE
          [] OTHER ->
                 IF app_in.query \in Titles THEN ShowsMovie(app_in.query)
                 ELSE SelectionUnchanged

\* A deep link to a title of the catalogue was followed, and another page was
\* opened with a parameter that names no title.
MovieParamSelectsWitness ==
    /\ app_in.event \in {"open", "card"}
    /\ app_in.query \in Titles
    /\ ShowsMovie(app_in.query)

MovieParamUnknownWitness ==
    /\ app_in.event = "open"
    /\ app_in.query /= NO_MOVIE
    /\ app_in.query \notin Titles
    /\ app_view.kind = "trending"

\* C16: at the end of every render selected_movie_name equals the selectbox's
\* value, and the 'movie' query parameter equals that value when a movie is
\* selected and is absent when none is.
SelectionInSync ==
    app_in.event /= "none" =>
        /\ app_session.selected_movie_name = Selectbox(app_session)
        /\ app_view.kind \in {"detail", "trending"} =>
               /\ "movie_selectbox" \in DOMAIN app_session
               /\ app_session.movie_selectbox = app_session.selected_movie_name
        /\ query_movie = app_session.selected_movie_name

\* The user picked another title in the selectbox, and the render followed.
SelectionInSyncWitness ==
    /\ app_in.event = "pick"
    /\ app_in.session.selected_movie_name /= NO_MOVIE
    /\ app_session.selected_movie_name /= NO_MOVIE
    /\ app_session.selected_movie_name /= app_in.session.selected_movie_name
    /\ query_movie = app_session.movie_selectbox

ModeDiffered ==
    /\ "previous_mode" \in DOMAIN run_in
    /\ run_in["previous_mode"] /= mode

\* The last run got genres from get_genres and rendered the Genre view: it
\* asked for the list, unless the top pager ended it.
GenreViewShown ==
    \/ fetched.kind = "browse"
    \/ rerun_pending /\ clicked \in {"prev_genre", "next_genre"}

\* The last run, in a browse mode, read its filter widgets and found another
\* selection recorded for the mode.
FilterDiffered ==
    /\ mode /= SEARCH_MODE
    /\ FilterKey(mode) \in DOMAIN run_in
    /\ FilterKey(mode) \in DOMAIN session_state
    /\ run_in[FilterKey(mode)] /= filter_choice
    /\ mode = GENRE_MODE => GenreViewShown

\* C18: a render whose mode differs from previous_mode, or whose filter
\* selection differs from the one recorded for the mode, has current_page = 1
\* when it issues its fetch, and records the new mode and the new selection.
PageResetOnContextChange ==
    /\ ModeDiffered =>
           /\ session_state["previous_mode"] = mode
           /\ fetched.kind = "browse" => fetched.page = 1
           /\ ~rerun_pending => session_state["current_page"] = 1
    /\ FilterDiffered =>
           /\ session_state[FilterKey(mode)] = filter_choice
           /\ fetched.kind = "browse" => fetched.page = 1

\* The user went to page 2 of a browse list and then changed the filter: the
\* render fetched page 1.
PageResetOnContextChangeWitness ==
    /\ FilterDiffered
    /\ ~ModeDiffered
    /\ run_in["current_page"] > 1
    /\ fetched.kind = "browse"
    /\ fetched.page = 1
    /\ fetched.count > 0

\* The user went to page 2 of a browse list and then to another browse mode.
PageResetOnModeChangeWitness ==
    /\ ModeDiffered
    /\ run_in["current_page"] > 1
    /\ fetched.kind = "browse"
    /\ fetched.page = 1

\* The last run was in the Search mode and read the text input.
ReadQuery ==
    /\ mode = SEARCH_MODE
    /\ clicked \notin {"View All Liked", "Clear History"}
    /\ "search_page" \in DOMAIN session_state

\* The last run read a query other than the previous_search_query it found.
QueryDiffered ==
    /\ ReadQuery
    /\ Get(run_in, "previous_search_query", EMPTY_QUERY) /= search_query

\* C19: in the Search mode a render whose query differs from
\* previous_search_query fetches page 1 of the new query, search_page being
\* reset before the fetch; a render whose query is empty resets search_page
\* to 1.
SearchPageResetOnQueryChange ==
    /\ (QueryDiffered /\ search_query /= EMPTY_QUERY) =>
           /\ fetched.kind = "search"
           /\ fetched.page = 1
           /\ fetched.total_pages \in {TotalPages(search_query), 1}
           /\ session_state["previous_search_query"] = search_query
           /\ session_state["search_page"] = 1
    /\ (ReadQuery /\ search_query = EMPTY_QUERY) =>
           /\ session_state["search_page"] = 1
           /\ fetched.kind /= "search"

\* The user went to page 2 of a search and then typed another query: the
\* render fetched page 1.
SearchPageResetOnQueryChangeWitness ==
    /\ QueryDiffered
    /\ search_query /= EMPTY_QUERY
    /\ Get(run_in, "search_page", 1) > 1
    /\ fetched.kind = "search"
    /\ fetched.page = 1
    /\ fetched.count > 0

\* The user went to page 2 of a search and then cleared the query.
SearchPageResetOnClearWitness ==
    /\ ReadQuery
    /\ search_query = EMPTY_QUERY
    /\ Get(run_in, "search_page", 1) > 1
    /\ session_state["search_page"] = 1

\* The last run, in a browse mode, asked for its list and got [].
EmptyListFetched ==
    /\ mode /= SEARCH_MODE
    /\ fetched.kind = "browse"
    /\ fetched.count = 0

\* The last run, in the Genre mode, got [] from get_genres: it rendered no
\* widget of the view and asked for no list.
GenresNotFetched ==
    /\ mode = GENRE_MODE
    /\ ~GenreViewShown

\* C20: in every browse mode a render whose fetch returns [] while
\* current_page > 1 lowers current_page by exactly one, whether the data
\* ended or the request raised; so while the remote API keeps failing, every
\* render lowers current_page by one until it reaches 1.
EmptyFetchStepsBack ==
    /\ (EmptyListFetched /\ fetched.page > 1) =>
           session_state["current_page"] = fetched.page - 1
    /\ (GenresNotFetched /\ ~ModeDiffered /\ Get(run_in, "current_page", 1) > 1) =>
           session_state["current_page"] = run_in["current_page"] - 1

\* C20, amended: a render that asks for its list and gets [] while
\* current_page > 1 lowers current_page by exactly one (and leaves page 1
\* alone); a render of the Genre mode whose get_genres returns [] asks for no
\* list and leaves current_page as it found it.
EmptyListFetchStepsBack ==
    /\ EmptyListFetched =>
           session_state["current_page"] =
               IF fetched.page > 1 THEN fetched.page - 1 ELSE 1
    /\ (GenresNotFetched /\ ~ModeDiffered /\ "current_page" \in DOMAIN run_in) =>
           session_state["current_page"] = run_in["current_page"]

\* The request for page 2, a page that holds movies, raised: the render
\* went back to page 1.
EmptyListFetchStepsBackWitness ==
    /\ EmptyListFetched
    /\ fetched.page = BrowsePages
    /\ fetched.page > 1
    /\ session_state["current_page"] = fetched.page - 1

\* The list ended before the page asked for.
EmptyListPastEndWitness ==
    /\ EmptyListFetched
    /\ fetched.page > BrowsePages
    /\ session_state["current_page"] = BrowsePages

\* The Genre mode on page 2, and get_genres fails.
GenresNotFetchedWitness ==
    /\ GenresNotFetched
    /\ ~ModeDiffered
    /\ Get(run_in, "current_page", 1) > 1
    /\ session_state["current_page"] = run_in["current_page"]

(***************************************************************************)
(* main() of src/movie_recommender.py: the search history                  *)
(***************************************************************************)

\* The ids, and the non-empty original languages, of the first n movies of a
\* page of results.
PageIds(n) == [k \in 1 .. n |-> PageMovies[k].id]
PageLanguages(n) ==
    SelectSeq([k \in 1 .. n |-> PageMovies[k].original_language], LAMBDA l : l /= NONE)

\* C21: add_to_search_history is called only by a render of the Search view
\* with a query, search_page = 1 and a result list that is not empty, and the
\* entry holds that query, the ids of the page's movies and their non-empty
\* original languages; a render of page 2 or later adds no entry.
HistoryOnFirstPageOnly ==
    [][/\ history_adds' /= history_adds =>
              /\ history_adds' = history_adds + 1
              /\ mode' = SEARCH_MODE
              /\ search_query' /= EMPTY_QUERY
              /\ fetched'.kind = "search"
              /\ fetched'.page = 1
              /\ fetched'.count > 0
              /\ user_search_history' /= <<>>
              /\ LET entry == user_search_history'[Len(user_search_history')]
                 IN  /\ entry.query = search_query'
                     /\ entry.movie_ids = PageIds(fetched'.count)
                     /\ entry.languages = PageLanguages(fetched'.count)
       /\ (fetched'.kind = "search" /\ fetched'.page >= 2) =>
              /\ history_adds' = history_adds
              /\ user_search_history' = load_search_history(search_history_file)
      ]_vars

\* A render of page 1 of a search recorded its entry.
HistoryOnFirstPageOnlyWitness ==
    /\ last_op.op = "add_to_search_history"
    /\ fetched.kind = "search"
    /\ fetched.page = 1
    /\ last_op.entry.query = search_query
    /\ last_op.entry.movie_ids = PageIds(fetched.count)
    /\ user_search_history[Len(user_search_history)] = last_op.entry

\* A render of page 2 of a search showed movies and recorded nothing.
HistoryNotOnSecondPageWitness ==
    /\ fetched.kind = "search"
    /\ fetched.page = 2
    /\ fetched.count > 0
    /\ last_op.op = "__init__"

\* ---- get_recommendations_from_history: the languages of the history
LANGUAGE_THRESHOLD == 2

\* lines 545-549: all_languages, all_movie_ids
RECURSIVE all_languages(_)
all_languages(history) ==
    IF history = <<>> THEN <<>>
    ELSE Head(history).languages \o all_languages(Tail(history))

RECURSIVE all_movie_ids(_)
all_movie_ids(history) ==
    IF history = <<>> THEN <<>>
    ELSE Head(history).movie_ids \o all_movie_ids(Tail(history))

\* lines 552-555: language_frequency[lang]
language_frequency(history, lang) ==
    Len(SelectSeq(all_languages(history), LAMBDA l : l = lang))

\* The keys of a dict filled from s, in insertion order.
RECURSIVE FirstOccurrences(_)
FirstOccurrences(s) ==
    IF s = <<>> THEN <<>>
    ELSE IF \E i \in 1 .. (Len(s) - 1) : s[i] = s[Len(s)]
         THEN FirstOccurrences(SubSeq(s, 1, Len(s) - 1))
         ELSE Append(FirstOccurrences(SubSeq(s, 1, Len(s) - 1)), s[Len(s)])

\* lines 558-560: the languages searched at least twice, the most frequent first
searched_languages(history) ==
    LET keys == FirstOccurrences(SelectSeq(all_languages(history),
                                           LAMBDA l : l \notin {NONE, ""}))
        frequent == SelectSeq(keys,
                        LAMBDA l : language_frequency(history, l) >= LANGUAGE_THRESHOLD)
        ranked == SortedByKeyDesc([i \in 1 .. Len(frequent) |->
                                      <<frequent[i], language_frequency(history, frequent[i])>>])
    IN  [i \in 1 .. Len(ranked) |-> ranked[i][1]]

\* The last n entries of the history are searches for the query.
LastEntriesFor(n, query) ==
    /\ Len(user_search_history) >= n
    /\ \A i \in (Len(user_search_history) - n + 1) .. Len(user_search_history) :
           user_search_history[i].query = query

\* C22: every render of page 1 of a search with results appends one entry,
\* reruns with an unchanged query included (after Like, Unlike, Recommend or
\* a return from page 2); the entries are as many as these renders, and each
\* of them counts for the cap of 50 entries and for the languages' frequency.
EveryFirstPageRenderRecords ==
    [][(fetched'.kind = "search" /\ fetched'.page = 1 /\ fetched'.count > 0) =>
           LET loaded == load_search_history(search_history_file)
               kept == IF Len(loaded) < HISTORY_CAP THEN loaded ELSE Tail(loaded)
               entry == SearchEntry(search_query', ListArg(PageIds(fetched'.count)),
                                    ListArg(PageLanguages(fetched'.count)), now)
           IN  /\ history_adds' = history_adds + 1
               /\ user_search_history' = Append(kept, entry)
               /\ \A l \in {PageLanguages(fetched'.count)[k] :
                              k \in 1 .. Len(PageLanguages(fetched'.count))} :
                      language_frequency(user_search_history', l) >=
                          language_frequency(kept, l) + 1
      ]_vars

\* One query was typed and one movie liked: the typed query's render, the
\* render the Like was clicked in and the rerun each recorded the search. The
\* three entries filled the history to its cap and made the movies' language
\* a frequent one.
EveryFirstPageRenderRecordsWitness ==
    /\ events = 2
    /\ history_adds = 3
    /\ ~rerun_pending
    /\ DOMAIN liked_movies /= {}
    /\ search_query /= EMPTY_QUERY
    /\ LastEntriesFor(3, search_query)
    /\ Len(user_search_history) = HISTORY_CAP
    /\ searched_languages(user_search_history) /= <<>>

(***************************************************************************)
(* main() of src/movie_recommender.py: the recommendations panel           *)
(***************************************************************************)

\* lines 1755-1762: total_pages and the slice of the page
PanelTotalPages(recommendations) ==
    (Len(recommendations) + ITEMS_PER_PAGE - 1) \div ITEMS_PER_PAGE

PanelSlice(recommendations, page) ==
    PySlice(recommendations, (page - 1) * ITEMS_PER_PAGE,
            Min((page - 1) * ITEMS_PER_PAGE + ITEMS_PER_PAGE, Len(recommendations)))

\* The session holds the panel's keys.
PanelKeys == {"recommendation_page", "all_recommendations"} \subseteq DOMAIN session_state

\* C23: in the recommendations panel recommendation_page lies in
\* 1 .. total_pages, total_pages = ceil(len(all_recommendations) / 10), after
\* any clicks on Previous, Next (top or bottom), Recommend and Back to Browse:
\* the slice shown for a list that is not empty is never empty.
RecommendationPageInRange ==
    PanelKeys =>
        /\ session_state["recommendation_page"] >= 1
        /\ session_state["all_recommendations"] /= <<>> =>
               /\ session_state["recommendation_page"] <=
                      PanelTotalPages(session_state["all_recommendations"])
               /\ PanelSlice(session_state["all_recommendations"],
                             session_state["recommendation_page"]) /= <<>>

\* Next was clicked on the last page of the panel, and the page stayed.
RecommendationPageInRangeWitness ==
    /\ PanelKeys
    /\ clicked \in {"next_rec_top", "next_rec_bottom"}
    /\ ~rerun_pending
    /\ PanelTotalPages(session_state["all_recommendations"]) > 1
    /\ session_state["recommendation_page"] =
           PanelTotalPages(session_state["all_recommendations"])

\* The buttons of the panel that write its session keys.
PanelButtons ==
    {"prev_rec_top", "next_rec_top", "prev_rec_bottom", "next_rec_bottom", "Back to Browse"}

\* The panel's condition of line 1738 on the session as a run finds it.
StoredListStale ==
    \/ Get(session_state, "all_recommendations", <<>>) = <<>>
    \/ Get(session_state, "last_recommended_movie_id", NO_MOVIE) /=
           Get(session_state, "selected_movie_id", NO_MOVIE)

\* C24: the recommendations are generated once per selected movie: a run
\* that shows the panel while selected_movie_id equals
\* last_recommended_movie_id and all_recommendations is not empty neither
\* recomputes all_recommendations nor changes recommendation_page; the list is
\* recomputed, and recommendation_page set to 1, exactly when the selected id
\* differs from last_recommended_movie_id or the stored list is empty.
GeneratedOncePerMovie ==
    [][panel_run' /= "none" =>
         /\ panel_run' = "generated" <=> StoredListStale
         /\ panel_run' = "generated" =>
                /\ session_state'["recommendation_page"] = 1
                /\ session_state'["last_recommended_movie_id"] =
                       session_state["selected_movie_id"]
         /\ (panel_run' = "kept" /\ clicked' \notin PanelButtons) =>
                /\ session_state'["all_recommendations"] =
                       session_state["all_recommendations"]
                /\ session_state'["recommendation_page"] =
                       session_state["recommendation_page"]
                /\ session_state'["last_recommended_movie_id"] =
                       session_state["last_recommended_movie_id"]]_vars

\* A rerun on page 2 of the list of the selected movie kept list and page.
GeneratedOncePerMovieWitness ==
    /\ panel_run = "kept"
    /\ clicked \notin PanelButtons
    /\ Get(run_in, "recommendation_page", 1) = 2
    /\ session_state["recommendation_page"] = 2

\* Recommend on another movie while on page 2: the list was generated again.
RegeneratedForOtherMovieWitness ==
    /\ panel_run = "generated"
    /\ Get(run_in, "all_recommendations", <<>>) /= <<>>
    /\ Get(run_in, "recommendation_page", 1) = 2
    /\ session_state["recommendation_page"] = 1

\* A generation that returned nothing is repeated by the next run.
RegeneratedEmptyListWitness ==
    /\ panel_run = "generated"
    /\ Get(run_in, "last_recommended_movie_id", NO_MOVIE) /= NO_MOVIE
    /\ Get(run_in, "last_recommended_movie_id", NO_MOVIE) =
           Get(run_in, "selected_movie_id", NO_MOVIE)

(***************************************************************************)
(* MovieRecommender.get_recommendations_from_history                       *)
(***************************************************************************)

\* ---- bounds
NumLangs == 7         \* languages of the movies the server knows
NumGenres == 3        \* genres of the movies the server knows
NumCandidates == 15   \* movies the server knows
MaxHistory == 3       \* entries of a search history
MaxLiked == 7         \* liked movies

\* ---- program constants
RECENT_UNIQUE == 10        \* list(set(all_movie_ids))[-10:]
TOP_LANGUAGES == 2         \* preferred_languages[:2]
TOP_GENRES == 2            \* list(user_genres)[:2]
LANGUAGE_SLICE == 15       \* lang_movies[:15]
GENRE_SLICE == 10          \* genre_movies[:10]
TRENDING_SLICE == 10       \* trending[:10]
LIKED_GENRE_POINTS == 8
LANGUAGE_POINTS == 10
LANGUAGE_RANK_STEP == 2
GENRE_POINTS == 5
RECENT_POINTS == 3
RECENT_YEARS == 2
HOME_TOP_N == 15           \* the home view's call, top_n=15
DEFAULT_TOP_N == 20

Range(s) == {s[i] : i \in DOMAIN s}

\* ---- the movies of the server
Language(k) == "lang_" \o ToString(k)

\* A movie as the list endpoints return it: the last movies carry no
\* original language; popularity in whole points, vote_average in tenths,
\* age in years since the release.
Candidate(id) ==
    [id |-> id,
     original_language |-> IF id > 2 * NumLangs THEN NONE
                           ELSE Language(((id - 1) % NumLangs) + 1),
     genre_ids |-> {((id - 1) % NumGenres) + 1},
     popularity |-> 50 * (id % 3),
     vote_average |-> 50 + 10 * (id % 4),
     age |-> id % 5]

AllCandidates == [id \in 1 .. NumCandidates |-> Candidate(id)]

\* get_movie_by_language, get_movie_by_genre and fetch_trending_movies (with
\* and without language_code), page 1: [] when the request fails
get_movie_by_language(language_code, lists_ok) ==
    IF ~lists_ok THEN <<>>
    ELSE SelectSeq(AllCandidates, LAMBDA m : m.original_language = language_code)

get_movie_by_genre(genre_id, lists_ok) ==
    IF ~lists_ok THEN <<>>
    ELSE SelectSeq(AllCandidates, LAMBDA m : genre_id \in m.genre_ids)

fetch_trending_movies(language_code, lists_ok) ==
    IF ~lists_ok THEN <<>>
    ELSE IF language_code = NONE THEN AllCandidates
    ELSE SelectSeq(AllCandidates, LAMBDA m : m.original_language = language_code)

\* get_movie_details: the movie with its 'genres', or None
get_movie_details(movie_id, details_ok) ==
    IF details_ok /\ movie_id \in 1 .. NumCandidates
    THEN [found |-> TRUE, genres |-> Candidate(movie_id).genre_ids]
    ELSE [found |-> FALSE, genres |-> {}]

\* list(a set): the set's elements in the order the build iterates them,
\* `order` being that order over all values
ListOfSet(order, S) == SelectSeq(order, LAMBDA x : x \in S)

\* ---- the steps of get_recommendations_from_history
\* `in`: history (the entries), liked (the liked movies' movie_data in the
\* dict's insertion order), details_ok and lists_ok (whether the requests
\* succeed), genre_order (the iteration order of the set user_genres), top_n

\* lines 564-568 and 577-579: the details of the last 10 unique history ids
\* and of the liked movies, those that could be fetched
recent_movies(in) ==
    LET unique_ids == ListOfSet([i \in 1 .. NumCandidates |-> i],
                                Range(all_movie_ids(in.history)))
        recent_ids == PySlice(unique_ids, 0 - RECENT_UNIQUE, Len(unique_ids))
        wanted == recent_ids \o [i \in 1 .. Len(in.liked) |-> in.liked[i].id]
    IN  SelectSeq([i \in 1 .. Len(wanted) |-> get_movie_details(wanted[i], in.details_ok)],
                  LAMBDA details : details.found)

\* lines 588-595: the liked movies' languages join the preferred ones
RECURSIVE preferred_languages(_, _)
preferred_languages(preferred, liked_movie_details) ==
    IF liked_movie_details = <<>> THEN preferred
    ELSE LET lang == Head(liked_movie_details).original_language
         IN  preferred_languages(
                 IF lang \notin {NONE, ""} /\ lang \notin Range(preferred)
                 THEN Append(preferred, lang) ELSE preferred,
                 Tail(liked_movie_details))

\* lines 590-592, 637-639: the genre ids of the liked movies
liked_genres(liked_movie_details) ==
    UNION {liked_movie_details[i].genre_ids : i \in DOMAIN liked_movie_details}

\* lines 590-600: user_genres
user_genres(liked_movie_details, recent) ==
    liked_genres(liked_movie_details) \cup UNION {recent[i].genres : i \in DOMAIN recent}

\* lines 607-625: the lists the candidates are taken from
RECURSIVE language_movies(_, _)
language_movies(languages, lists_ok) ==
    IF languages = <<>> THEN <<>>
    ELSE PySlice(get_movie_by_language(Head(languages), lists_ok), 0, LANGUAGE_SLICE)
         \o language_movies(Tail(languages), lists_ok)

RECURSIVE genre_movies(_, _)
genre_movies(genres, lists_ok) ==
    IF genres = <<>> THEN <<>>
    ELSE PySlice(get_movie_by_genre(Head(genres), lists_ok), 0, GENRE_SLICE)
         \o genre_movies(Tail(genres), lists_ok)

recommended_movies(in, preferred, genres) ==
    language_movies(PySlice(preferred, 0, TOP_LANGUAGES), in.lists_ok)
    \o genre_movies(PySlice(ListOfSet(in.genre_order, genres), 0, TOP_GENRES), in.lists_ok)
    \o PySlice(fetch_trending_movies(IF preferred = <<>> THEN NONE ELSE preferred[1],
                                     in.lists_ok),
               0, TRENDING_SLICE)

\* line 628: seen_ids = set(all_movie_ids)
seen_ids_empty(history) == {}
seen_ids(history) == Range(all_movie_ids(history))

\* lines 629-633: the first occurrence of every id that is not seen yet
RECURSIVE unique_recommendations(_, _)
unique_recommendations(movie_list, seen) ==
    IF movie_list = <<>> THEN <<>>
    ELSE IF Head(movie_list).id \in seen
         THEN unique_recommendations(Tail(movie_list), seen)
         ELSE <<Head(movie_list)>>
              \o unique_recommendations(Tail(movie_list), seen \cup {Head(movie_list).id})

\* lines 650-655: the points of a language match, by the language's rank
language_bonus(movie, preferred) ==
    IF movie.original_language \in Range(preferred)
    THEN LET lang_rank == (CHOOSE i \in DOMAIN preferred :
                              /\ preferred[i] = movie.original_language
                              /\ \A j \in 1 .. (i - 1) : preferred[j] /= movie.original_language)
                          - 1
         IN  LANGUAGE_POINTS - lang_rank * LANGUAGE_RANK_STEP
    ELSE 0

\* lines 641-674: a movie's score, in hundredths of a point
score(movie, preferred, genres, liked) ==
    100 * ( Cardinality(movie.genre_ids \cap liked) * LIKED_GENRE_POINTS
          + language_bonus(movie, preferred)
          + Cardinality(movie.genre_ids \cap genres) * GENRE_POINTS
          + (IF movie.age <= RECENT_YEARS THEN RECENT_POINTS ELSE 0) )
    + 2 * movie.popularity
    + 10 * movie.vote_average

\* lines 679-680: scored_movies sorted by score, the highest first
scored_movies(unique, preferred, genres, liked) ==
    SortedByKeyDesc([i \in 1 .. Len(unique) |->
                        <<unique[i], score(unique[i], preferred, genres, liked)>>])

\* lines 542 and 582: the trending movies instead
TrendingFallback(in) ==
    [called |-> TRUE, fallback |-> TRUE, preferred_languages |-> <<>>,
     user_genres |-> {}, liked_genres |-> {},
     recommended_movies |-> <<>>, scored |-> <<>>, value |-> fetch_trending_movies(NONE, in.lists_ok)]

\* line 681: the first top_n movies
Returned(in, preferred, genres, recommended, scored) ==
    [called |-> TRUE, fallback |-> FALSE, preferred_languages |-> preferred,
     user_genres |-> genres, liked_genres |-> liked_genres(in.liked),
     recommended_movies |-> recommended, scored |-> scored,
     value |-> [i \in 1 .. Len(PySlice(scored, 0, in.top_n)) |-> scored[i][1]]]

Scored(in, preferred, genres, recommended) ==
    Returned(in, preferred, genres, recommended,
             scored_movies(unique_recommendations(recommended, seen_ids(in.history)),
                           preferred, genres, liked_genres(in.liked)))

Ranked(in, preferred, genres) ==
    Scored(in, preferred, genres, recommended_movies(in, preferred, genres))

Analysed(in, searched, recent) ==
    IF recent = <<>> /\ searched = <<>> THEN TrendingFallback(in)
    ELSE Ranked(in, preferred_languages(searched, in.liked), user_genres(in.liked, recent))

get_recommendations_from_history(in) ==
    IF in.history = <<>> /\ in.liked = <<>> THEN TrendingFallback(in)
    ELSE Analysed(in, searched_languages(in.history), recent_movies(in))

\* ---- the calls of get_recommendations_from_history
MaxSmallTopN == 3     \* values of top_n below the number of candidates

\* The pages of search results the entries of a history were recorded for.
HistoryPages == {<<1, 2>>, <<8>>, <<2, 9>>, <<NumCandidates>>}

\* The entry line 907 records for a page of results.
PageEntry(ids) ==
    SearchEntry(1, ListArg(ids),
                ListArg(SelectSeq([i \in 1 .. Len(ids) |-> Candidate(ids[i]).original_language],
                                  LAMBDA lang : lang \notin {NONE, ""})),
                0)

Histories ==
    UNION {[1 .. n -> {PageEntry(ids) : ids \in HistoryPages}] : n \in 0 .. MaxHistory}

\* The movie_data of the first n movies liked, in the order they were liked.
LikedMovies(n) == [k \in 1 .. n |-> Candidate(k)]

ProfileInputs ==
    [given : {TRUE},
     history : Histories,
     liked : {LikedMovies(n) : n \in 0 .. MaxLiked},
     details_ok : BOOLEAN,
     lists_ok : BOOLEAN,
     genre_order : Permutations(1 .. NumGenres),
     top_n : (1 .. MaxSmallTopN) \cup {HOME_TOP_N}]

\* One call of get_recommendations_from_history(top_n).
CallHistoryRecommendations ==
    /\ profile_in.given
    /\ ~profile_out.called
    /\ profile_out' = get_recommendations_from_history(profile_in)
    /\ UNCHANGED <<profile_in, response, fetch_out>>

InitProfile ==
    /\ InitAppIdle /\ InitRecommenderFresh /\ InitMainUi /\ InitSessionsIdle
    /\ response = NoAnswer
    /\ fetch_out = NoRemoteCall
    /\ profile_in \in ProfileInputs
    /\ profile_out = NoRecommendations

NextProfile ==
    CallHistoryRecommendations
        /\ UNCHANGED <<app_vars, recommender_vars, main_vars, session_vars>>

SpecProfile == InitProfile /\ [][NextProfile]_vars

\* C25: when it does not fall back to the trending movies,
\* get_recommendations_from_history(top_n) returns at most top_n movies, none
\* of them with an id in the movie_ids of an entry of the search history, and
\* no id twice.
HistoryRecommendationsAreNew ==
    (profile_out.called /\ ~profile_out.fallback) =>
        /\ Len(profile_out.value) <= profile_in.top_n
        /\ \A i \in DOMAIN profile_out.value :
               \A e \in DOMAIN profile_in.history :
                   \A j \in DOMAIN profile_in.history[e].movie_ids :
                       profile_out.value[i].id /= profile_in.history[e].movie_ids[j]
        /\ \A i, j \in DOMAIN profile_out.value :
               i /= j => profile_out.value[i].id /= profile_out.value[j].id

\* The lists held a movie of the history and a movie twice, and more movies
\* than top_n were left to return.
HistoryRecommendationsAreNewWitness ==
    /\ profile_out.called /\ ~profile_out.fallback
    /\ \E i \in DOMAIN profile_out.recommended_movies :
           \E e \in DOMAIN profile_in.history :
               \E j \in DOMAIN profile_in.history[e].movie_ids :
                   profile_out.recommended_movies[i].id = profile_in.history[e].movie_ids[j]
    /\ \E i, j \in DOMAIN profile_out.recommended_movies :
           i /= j /\ profile_out.recommended_movies[i].id = profile_out.recommended_movies[j].id
    /\ Len(profile_out.scored) > profile_in.top_n
    /\ Len(profile_out.value) = profile_in.top_n
    /\ profile_in.top_n > 1

\* The movie with an original language that is no preferred language.
WithoutLanguageMatch(movie) == [movie EXCEPT !.original_language = NONE]

\* C26: a candidate whose original_language is a preferred language gets a
\* language bonus of 10 - 2 * rank, and this bonus is positive for every
\* preferred language: a language match never lowers a candidate's score below
\* that of an otherwise identical candidate with no language match.
LanguageMatchNeverLowersScore ==
    (profile_out.called /\ ~profile_out.fallback) =>
        \A i \in DOMAIN profile_out.scored :
            profile_out.scored[i][1].original_language
                    \in Range(profile_out.preferred_languages) =>
                /\ language_bonus(profile_out.scored[i][1],
                                  profile_out.preferred_languages) > 0
                /\ profile_out.scored[i][2] >=
                       score(WithoutLanguageMatch(profile_out.scored[i][1]),
                             profile_out.preferred_languages,
                             profile_out.user_genres, profile_out.liked_genres)

\* A call in which a candidate in a preferred language scores less than it
\* would with no language match.
LanguageMatchLowersScore ==
    /\ profile_out.called /\ ~profile_out.fallback
    /\ \E i \in DOMAIN profile_out.scored :
           /\ profile_out.scored[i][1].original_language
                  \in Range(profile_out.preferred_languages)
           /\ profile_out.scored[i][2] <
                  score(WithoutLanguageMatch(profile_out.scored[i][1]),
                        profile_out.preferred_languages,
                        profile_out.user_genres, profile_out.liked_genres)

====
